---- MODULE Spec2Model ----
(***************************************************************************)
(* Query-processing pipeline of Genie: the orchestrator's staged control   *)
(* flow (agents/orchestrator.py), the query classifier it calls            *)
(* (agents/query_agent.py), the chat entry point (main.py) and the rolling *)
(* conversation memory (core/memory.py).                                   *)
(*                                                                         *)
(* Strings are TLA+ strings; substring tests, lower-casing and word        *)
(* counting are computed character by character as Python does.            *)
(* Confidences are integers in hundredths (100 stands for 1.0).            *)
(***************************************************************************)
EXTENDS Integers, Sequences, FiniteSets, TLC

\* ------------------------------------------------------------------ bounds
MaxStarts == 2      \* process/chat calls started in one behaviour
MaxTicks == 1       \* clock advances in one behaviour
MaxItems == 1       \* items one retrieval may return

\* ------------------------------------------------------- program constants
CacheTTL == 3600                 \* orchestrator.py:52
MaxCacheEntries == 100           \* orchestrator.py:337
EvictCount == 50                 \* orchestrator.py:340
MaxMemoryTokens == 8000          \* settings.py:208
ConversationWindow == 50         \* settings.py:209
SummarizeEvery == 20             \* memory.py:47
KeepRecent == 5                  \* memory.py:100, memory.py:188
MinHistoryToSummarize == 10      \* memory.py:96
MinSummaryLen == 10              \* memory.py:119
EnableResponseCaching == TRUE    \* settings.py:96

\* ------------------------------------------------------------ string tools
Min(a, b) == IF a < b THEN a ELSE b

\* x in s  (Python substring test)
Contains(s, p) ==
    \E i \in 1..(Len(s) - Len(p) + 1) : SubSeq(s, i, i + Len(p) - 1) = p

\* s.endswith(p)
EndsWith(s, p) ==
    /\ Len(s) >= Len(p)
    /\ SubSeq(s, Len(s) - Len(p) + 1, Len(s)) = p

CharAt(s, i) == SubSeq(s, i, i)

UpperLetters == "ABCDEFGHIJKLMNOPQRSTUVWXYZ"
LowerLetters == "abcdefghijklmnopqrstuvwxyz"
Digits == "0123456789"

\* the position of character c in the alphabet `letters`, 0 when absent
IndexIn(letters, c) ==
    IF \E k \in 1..Len(letters) : CharAt(letters, k) = c
    THEN CHOOSE k \in 1..Len(letters) : CharAt(letters, k) = c
    ELSE 0

MapChar(from, to, c) ==
    IF IndexIn(from, c) = 0 THEN c ELSE CharAt(to, IndexIn(from, c))

LowerChar(c) == MapChar(UpperLetters, LowerLetters, c)

UpperChar(c) == MapChar(LowerLetters, UpperLetters, c)

\* the characters i..j of s in lower case
RECURSIVE LowerFrom(_, _, _)
LowerFrom(s, i, j) ==
    IF i > j THEN ""
    ELSE IF i = j THEN LowerChar(CharAt(s, i))
    ELSE LowerFrom(s, i, (i + j) \div 2) \o LowerFrom(s, (i + j) \div 2 + 1, j)

\* str.lower()
Lower(s) == LowerFrom(s, 1, Len(s))

IsSpace(c) == c \in {" ", "\n", "\t"}

\* str.strip()
RECURSIVE Strip(_)
Strip(s) ==
    IF Len(s) = 0 THEN s
    ELSE IF IsSpace(CharAt(s, 1)) THEN Strip(SubSeq(s, 2, Len(s)))
    ELSE IF IsSpace(CharAt(s, Len(s))) THEN Strip(SubSeq(s, 1, Len(s) - 1))
    ELSE s

\* len(content.split()): the number of maximal runs of non-blank characters
WordCount(s) ==
    Cardinality({i \in 1..Len(s) :
        /\ ~IsSpace(CharAt(s, i))
        /\ (i = 1 \/ IsSpace(CharAt(s, i - 1)))})

\* \w of Python's re module, over the characters the model's texts use
IsWordChar(c) ==
    IndexIn(UpperLetters \o LowerLetters \o Digits \o "_", c) # 0

\* the end of the longest run of \w characters that starts at position i
RECURSIVE WordEnd(_, _)
WordEnd(s, i) ==
    IF i <= Len(s) /\ IsWordChar(CharAt(s, i)) THEN WordEnd(s, i + 1) ELSE i - 1

\* str.title() of a single lower-case word
Title(w) == IF Len(w) = 0 THEN w ELSE UpperChar(CharAt(w, 1)) \o SubSeq(w, 2, Len(w))

\* ------------------------------------------------ inputs of the pipeline
NoPref == ""        \* model_preference is None (or otherwise falsy)

Queries == {"", "What is suicide?", "I feel sad", "i live in paris"}
Sessions == {"s1", "s2"}
Prefs == {NoPref, "groq"}
\* how a call enters: "chat" (GenieAI.chat answers itself), "process" (the
\* orchestrator is called directly), "any" (through chat or directly: the
\* orchestrator runs the same, chat then maps its response)
Entries == {"process", "any"}
Replies == {"You are not alone."}

\* what a user may say besides a query: a name, a preference
FactTexts == {"my name is ann", "i love tea"}
Calls == {"c1"}

\* the slots of the calls the event loop may hold at once; the calls made
\* one after the other use the first
Slots == Calls \cup {"c2"}

\* a query and session ids that contain the separator of the cache key
ColonQueries == {"I feel sad:s1"}
ColonSessions == {"s2", "s1:s2"}
SessionQueries == {"I feel sad"} \cup ColonQueries

\* the fixed reply of _handle_crisis
CrisisResponse ==
    "I'm concerned about what you're sharing, and I want you to know that you don't have to go through this alone. \n\nPlease consider reaching out for immediate support:\n- National Suicide Prevention Lifeline: 988 (US)\n- Crisis Text Line: Text HOME to 741741\n- International Crisis Lines: findahelpline.com\n\nIf you're in immediate danger, please call emergency services (911) or go to your nearest emergency room.\n\nI'm here to listen and support you, but please also connect with human professionals who can provide the specialized help you deserve."

\* the reply of the except branch of SynthesisAgent.process
SynthesisFallbackText ==
    "I'm here to support you, though I'm having some technical difficulties accessing my full knowledge base right now. Your question is important, and I want to help as best I can."

\* every text the pipeline can store in a message
StoredTexts == Queries \cup Replies \cup {CrisisResponse, SynthesisFallbackText}

\* str.lower() on the texts the pipeline's callers send, evaluated once
LowerOf == [t \in Queries |-> Lower(t)] @@ <<>>

Low(text) == IF text \in Queries THEN LowerOf[text] ELSE Lower(text)

\* ------------------------------------------------ core/memory.py: messages
\* One stored message.  `origin` is auxiliary: the session id of the
\* process call that appended the message (the stored dict has no such field);
\* the wall-clock timestamp of the stored dict is not represented.
Message(role, content, origin) ==
    [role |-> role, content |-> content, origin |-> origin]

EmptyMemory ==
    [conversations |-> <<>>, summaries |-> <<>>, critical_context |-> <<>>]

EmptyContext == [has_name |-> FALSE, user_name |-> "", preferences |-> <<>>]

NoMatch == [found |-> FALSE, g1 |-> "", g2 |-> "", g3 |-> ""]

\* the text matched by a greedy (.+) that starts at position j: up to the end
\* of the line; "" when there is no character to match
RECURSIVE LineEnd(_, _)
LineEnd(s, j) ==
    IF j <= Len(s) /\ CharAt(s, j) # "\n" THEN LineEnd(s, j + 1) ELSE j - 1

LineRest(s, j) == SubSeq(s, j, LineEnd(s, j))

LeastOf(S) == CHOOSE h \in S : \A k \in S : h <= k
GreatestOf(S) == CHOOSE h \in S : \A k \in S : k <= h

\* the positions where lit, followed by a \w character, occurs in s
WordHits(s, lit) ==
    {i \in 1..(Len(s) - Len(lit)) :
        /\ SubSeq(s, i, i + Len(lit) - 1) = lit
        /\ IsWordChar(CharAt(s, i + Len(lit)))}

WordMatchAt(s, b) ==
    [found |-> TRUE, g1 |-> SubSeq(s, b, WordEnd(s, b)), g2 |-> "", g3 |-> ""]

\* re.search(lit + r"(\w+)", s): the word captured by the leftmost match
SearchWord(s, lit) ==
    IF WordHits(s, lit) = {} THEN NoMatch
    ELSE WordMatchAt(s, LeastOf(WordHits(s, lit)) + Len(lit))

\* pre + alternative number a + " ": the literal head of the pattern
AltHead(pre, alts, a) == pre \o alts[a] \o " "

\* the head occurs at position i of s and (.+) has a character to match
AltOk(s, head, i) ==
    /\ i + Len(head) - 1 <= Len(s)
    /\ SubSeq(s, i, i + Len(head) - 1) = head
    /\ LineRest(s, i + Len(head)) # ""

AltHits(s, pre, alts) ==
    {i \in 1..Len(s) :
        \E a \in 1..Len(alts) : AltOk(s, AltHead(pre, alts, a), i)}

\* the first alternative that lets the whole pattern match at position i
FirstAlt(s, pre, alts, i) ==
    CHOOSE x \in 1..Len(alts) :
        /\ AltOk(s, AltHead(pre, alts, x), i)
        /\ \A y \in 1..(x - 1) : ~AltOk(s, AltHead(pre, alts, y), i)

AltMatchAt(s, pre, alts, i, a) ==
    [found |-> TRUE, g1 |-> alts[a],
     g2 |-> LineRest(s, i + Len(AltHead(pre, alts, a))), g3 |-> ""]

\* re.search(pre + "(a1|a2|...)" + " (.+)", s): leftmost match, first
\* alternative that lets the whole pattern match
SearchAlt(s, pre, alts) ==
    IF AltHits(s, pre, alts) = {} THEN NoMatch
    ELSE AltMatchAt(s, pre, alts, LeastOf(AltHits(s, pre, alts)),
                    FirstAlt(s, pre, alts, LeastOf(AltHits(s, pre, alts))))

\* the places where " is " can split the text L that follows the head
FavoriteCuts(L) == {k \in 2..(Len(L) - 4) : SubSeq(L, k, k + 3) = " is "}

FavoriteAt(m, k) ==
    [found |-> TRUE, g1 |-> m.g1, g2 |-> SubSeq(m.g2, 1, k - 1),
     g3 |-> SubSeq(m.g2, k + 4, Len(m.g2))]

FavoriteFrom(m) ==
    IF ~m.found \/ FavoriteCuts(m.g2) = {} THEN NoMatch
    ELSE FavoriteAt(m, GreatestOf(FavoriteCuts(m.g2)))

\* re.search(r"my (favorite|preferred) (.+) is (.+)", s): the first (.+) is
\* greedy, so the split is at the last " is " of the line
SearchFavorite(s) ==
    FavoriteFrom(SearchAlt(s, "my ", <<"favorite", "preferred">>))

\* self.critical_context[sid]["preferences"][category] = value
SetPreference(prefs, category, value) ==
    IF \E i \in 1..Len(prefs) : prefs[i][1] = category
    THEN [i \in 1..Len(prefs) |->
            IF prefs[i][1] = category THEN <<category, value>> ELSE prefs[i]]
    ELSE Append(prefs, <<category, value>>)

\* the first match of a list of searches, NoMatch when none matched
FirstFound(ms) ==
    IF \E i \in 1..Len(ms) : ms[i].found
    THEN ms[LeastOf({i \in 1..Len(ms) : ms[i].found})]
    ELSE NoMatch

\* the name patterns of _extract_critical_context, in order
NameMatch(low) ==
    FirstFound(<<SearchWord(low, "my name is "), SearchWord(low, "i'm "),
                 SearchWord(low, "call me "), SearchWord(low, "i am ")>>)

\* the preference patterns of _extract_critical_context, in order; the last
\* two have one group only
PreferenceMatches(low) ==
    <<SearchAlt(low, "i ", <<"like", "love", "enjoy">>),
      SearchAlt(low, "i ", <<"don't like", "hate", "dislike">>),
      SearchFavorite(low),
      SearchAlt(low, "i ", <<"work", "study">>),
      SearchAlt(low, "i live", <<" in">>),
      SearchAlt(low, "i'm", <<" from">>)>>

\* len(match.groups()) of the first preference pattern that matches
PreferenceKind(ms) ==
    IF ~\E i \in 1..Len(ms) : ms[i].found THEN "none"
    ELSE IF LeastOf({i \in 1..Len(ms) : ms[i].found}) = 3 THEN "three_groups"
    ELSE IF LeastOf({i \in 1..Len(ms) : ms[i].found}) >= 5 THEN "one_group"
    ELSE "two_groups"

\* the regular-expression searches of _extract_critical_context over the
\* lower-cased content: the first name pattern that matches, and the first
\* preference pattern that matches with the number of groups it has
CriticalMatchesIn(ms, name) ==
    [name |-> name, pref |-> PreferenceKind(ms), m |-> FirstFound(ms)]

CriticalMatches(content) ==
    CriticalMatchesIn(PreferenceMatches(Low(content)), NameMatch(Low(content)))

\* the searches on the texts the callers of add_message send, evaluated
\* once; every user message is one of them
CriticalMatchesOf ==
    [q \in Queries \cup FactTexts \cup ColonQueries |-> CriticalMatches(q)] @@ <<>>

MatchesFor(content) == CriticalMatchesOf[content]

\* the body of _extract_critical_context for a user message, given the
\* matches f.  A one-group pattern reaches match.group(2), which raises
\* IndexError.
ExtractWith(ctx, f) ==
    [ctx |-> [has_name |-> ctx.has_name \/ f.name.found,
              user_name |-> IF f.name.found THEN Title(f.name.g1)
                            ELSE ctx.user_name,
              preferences |->
                IF f.pref = "two_groups"
                THEN SetPreference(ctx.preferences, f.m.g1, f.m.g2)
                ELSE IF f.pref = "three_groups"
                THEN SetPreference(ctx.preferences, f.m.g1,
                                   f.m.g2 \o " " \o f.m.g3)
                ELSE ctx.preferences],
     raised |-> f.pref = "one_group"]

\* _extract_critical_context.  Returns the new context and whether the call
\* raised.
ExtractCriticalContext(ctx, role, content) ==
    IF role # "user" THEN [ctx |-> ctx, raised |-> FALSE]
    ELSE ExtractWith(ctx, MatchesFor(content))

\* len(content.split()) on the texts the pipeline stores, evaluated once
WordCountOf == [t \in StoredTexts |-> WordCount(t)] @@ <<>>

Words(content) ==
    IF content \in StoredTexts THEN WordCountOf[content] ELSE WordCount(content)

\* sum(len(msg["content"].split()) * 1.3 ...) > limit, in tenths of a token
RECURSIVE TotalWords(_)
TotalWords(history) ==
    IF history = <<>> THEN 0
    ELSE Words(Head(history).content) + TotalWords(Tail(history))

TokensExceed(history, tenths) == 13 * TotalWords(history) > tenths

\* the outcome of llm_manager.invoke(prompt): a text, or an exception
LLMText(text) == [raises |-> FALSE, text |-> text]
LLMRaises == [raises |-> TRUE, text |-> ""]

\* _summarize_conversation on one session's (log, summaries)
SummarizeConversation(history, sums, llm) ==
    LET n == Len(history) - KeepRecent
        unchanged == [history |-> history, sums |-> sums]
    IN  IF Len(history) < MinHistoryToSummarize THEN unchanged
        ELSE IF n < 5 THEN unchanged
        ELSE IF llm.raises THEN unchanged
        ELSE IF llm.text # "" /\ Len(Strip(llm.text)) > MinSummaryLen
        THEN [history |-> SubSeq(history, n + 1, Len(history)),
              sums |-> Append(sums, [summary |-> llm.text, message_count |-> n])]
        ELSE unchanged

\* the while loop of _trim_conversation without the test that keeps five
\* messages
RECURSIVE TrimConversationNoFloor(_, _, _, _)
TrimConversationNoFloor(history, sums, llm, max_tokens) ==
    IF TokensExceed(history, 10 * max_tokens) /\ history # <<>>
    THEN LET h1 == Tail(history)
         IN  IF TokensExceed(h1, 8 * max_tokens)
             THEN SummarizeConversation(h1, sums, llm)
             ELSE TrimConversationNoFloor(h1, sums, llm, max_tokens)
    ELSE [history |-> history, sums |-> sums]

\* _trim_conversation: the while loop with its break
RECURSIVE TrimConversation(_, _, _, _)
TrimConversation(history, sums, llm, max_tokens) ==
    IF TokensExceed(history, 10 * max_tokens) /\ Len(history) > KeepRecent
    THEN LET h1 == Tail(history)
         IN  IF TokensExceed(h1, 8 * max_tokens)
             THEN SummarizeConversation(h1, sums, llm)
             ELSE TrimConversation(h1, sums, llm, max_tokens)
    ELSE [history |-> history, sums |-> sums]

\* _trim_conversation on the (log, summaries) pair s
TrimFrom(s, llm, max_tokens) ==
    TrimConversation(s.history, s.sums, llm, max_tokens)

\* deque(maxlen=...).append
DequeAppend(history, msg, maxlen) ==
    IF Len(history) >= maxlen THEN Append(Tail(history), msg)
    ELSE Append(history, msg)

HasSession(mem, sid) == sid \in DOMAIN mem.conversations

\* one session's slots of the memory, as add_message finds them
SessionLog(mem, sid) ==
    IF HasSession(mem, sid) THEN mem.conversations[sid] ELSE <<>>

SessionSummaries(mem, sid) ==
    IF HasSession(mem, sid) THEN mem.summaries[sid] ELSE <<>>

SessionContext(mem, sid) ==
    IF HasSession(mem, sid) THEN mem.critical_context[sid] ELSE EmptyContext

\* the memory with the slots of session sid replaced
PutSession(mem, sid, conv, sums, ctx) ==
    [conversations |-> (sid :> conv) @@ mem.conversations,
     summaries |-> (sid :> sums) @@ mem.summaries,
     critical_context |-> (sid :> ctx) @@ mem.critical_context]

\* add_message after the append: the every-20-messages summarization
EveryTwenty(conv, sums, llm) ==
    IF Len(conv) % SummarizeEvery = 0
    THEN SummarizeConversation(conv, sums, llm)
    ELSE [history |-> conv, sums |-> sums]

\* add_message from the critical-context extraction on: when it raises, the
\* message stays appended and neither summarization nor trimming runs
AddAfterAppend(mem, sid, conv, sums, ext, llms, max_tokens) ==
    IF ext.raised
    THEN [mem |-> PutSession(mem, sid, conv, sums, ext.ctx), raised |-> TRUE]
    ELSE [mem |-> PutSession(mem, sid,
                    TrimFrom(EveryTwenty(conv, sums, llms[1]), llms[2],
                             max_tokens).history,
                    TrimFrom(EveryTwenty(conv, sums, llms[1]), llms[2],
                             max_tokens).sums,
                    ext.ctx),
          raised |-> FALSE]

\* add_message.  llms[1] is what the generation capability answers to the
\* every-20-messages summarization, llms[2] what it answers to the one the
\* trimming forces.  Returns the new memory and whether the call raised.
AddMessage(mem, sid, role, content, origin, llms, max_tokens, window_size) ==
    AddAfterAppend(mem, sid,
        DequeAppend(SessionLog(mem, sid), Message(role, content, origin),
                    window_size * 2),
        SessionSummaries(mem, sid),
        ExtractCriticalContext(SessionContext(mem, sid), role, content),
        llms, max_tokens)

\* clear_history
ClearHistory(mem, sid) ==
    LET keep == DOMAIN mem.conversations \ {sid}
    IN  [conversations |-> [t \in keep |-> mem.conversations[t]],
         summaries |-> [t \in keep |-> mem.summaries[t]],
         critical_context |-> [t \in keep |-> mem.critical_context[t]]]

\* any(p in text for p in patterns)
AnyIn(patterns, text) == \E p \in patterns : Contains(text, p)

\* ---------------------------------------- agents/query_agent.py: classifier
\* what the classification model answers, after strip().lower(); "other"
\* stands for any answer outside the three types
LLMTypeAnswers == {"factual", "practical", "emotional", "other"}

StrongEmotionalPatterns ==
    {"i feel", "i'm feeling", "feeling", "felt",
     "i am", "i'm", "i can't", "i cant", "i don't",
     "overwhelm", "overwhelmed", "anxious", "worried", "scared", "angry",
     "sad", "depressed", "lonely", "alone", "hopeless", "stress", "upset",
     "hate", "love", "hurt", "pain", "empty", "numb", "meaningless",
     "can't cope", "can't handle", "too much", "everything feels"}

FactualPatterns ==
    {"what is", "what are", "what does", "define", "definition",
     "according to", "dsm", "research shows", "studies show",
     "symptoms of", "causes of", "signs of", "diagnosis",
     "how common", "how many", "what percentage", "statistics",
     "difference between", "types of", "kinds of",
     "when was", "who developed", "where did", "which",
     "latest", "recent", "new studies"}

PracticalPatterns ==
    {"how do i", "how to", "how can i", "what should i do",
     "ways to", "steps to", "strategies", "techniques",
     "help me", "can you help", "what can i do",
     "coping", "manage", "deal with", "handle",
     "what techniques", "what are some", "effective"}

ExceptFactualWords == {"what is", "what are", "symptoms", "dsm", "according to"}

\* _classify_query_type: `raises` is the classification call failing,
\* `answer` what it answers otherwise
ClassifyQueryType(query, raises, answer) ==
    LET query_lower == Low(query)
    IN  IF raises
        THEN IF AnyIn(ExceptFactualWords, query_lower) THEN "factual"
             ELSE IF EndsWith(query, "?") THEN "practical"
             ELSE "emotional"
        ELSE IF answer \in {"factual", "practical", "emotional"} THEN answer
        ELSE IF AnyIn(StrongEmotionalPatterns, query_lower) THEN "emotional"
        ELSE IF AnyIn(FactualPatterns, query_lower) THEN "factual"
        ELSE IF AnyIn(PracticalPatterns, query_lower) THEN "practical"
        ELSE IF EndsWith(query, "?") THEN "practical"
        ELSE "emotional"

ManualCrisisKeywords ==
    {"suicide", "kill myself", "end it", "can't go on",
     "no point", "give up", "better off dead", "hurt myself",
     "self harm", "cutting", "overdose", "want to die"}

CrisisPatterns ==
    {"can't take it", "can't do this", "want it to end", "nothing left",
     "no hope", "hopeless", "pointless", "meaningless life",
     "everyone would be better", "burden", "worthless",
     "tired of living", "tired of everything", "give up on life"}

HasCrisisKeyword(query) == AnyIn(ManualCrisisKeywords, Low(query))

\* What the crisis-check capability can do: the guard model answers SAFE or
\* UNSAFE or fails; after UNSAFE the details call yields a parsed mapping
\* (any crisis_detected / severity), unparsable text, or fails.
GuardOutcomes ==
    {[guard |-> "SAFE", detected |-> FALSE, severity |-> "none"],
     [guard |-> "raises", detected |-> FALSE, severity |-> "none"],
     [guard |-> "UNSAFE_unparsable", detected |-> FALSE, severity |-> "none"],
     [guard |-> "UNSAFE_raises", detected |-> FALSE, severity |-> "none"]}
    \cup {[guard |-> "UNSAFE_json", detected |-> d, severity |-> v] :
            d \in BOOLEAN, v \in {"critical", "none"}}

\* _check_crisis: (crisis_detected, severity) of the mapping it returns
CheckCrisis(query, g) ==
    LET query_lower == Low(query)
    IN  IF AnyIn(ManualCrisisKeywords, query_lower)
        THEN [crisis_detected |-> TRUE, severity |-> "critical"]
        ELSE IF g.guard = "SAFE"
        THEN [crisis_detected |-> FALSE, severity |-> "none"]
        ELSE IF g.guard = "UNSAFE_json"
        THEN [crisis_detected |-> g.detected, severity |-> g.severity]
        ELSE IF g.guard = "UNSAFE_unparsable"
        THEN [crisis_detected |-> TRUE, severity |-> "high"]
        ELSE IF g.guard = "UNSAFE_raises"
        THEN [crisis_detected |-> TRUE, severity |-> "moderate"]
        ELSE [crisis_detected |-> AnyIn(CrisisPatterns, query_lower),
              severity |-> IF AnyIn(CrisisPatterns, query_lower)
                           THEN "moderate" ELSE "none"]

\* The fields of the analysis mapping that later code reads for control
\* flow.  The descriptive fields (primary_emotion, keywords, immediate_needs,
\* ...) are not represented.
Analysis(intent, query_type, urgency, complexity, current, web_only) ==
    [intent |-> intent, query_type |-> query_type, urgency_level |-> urgency,
     complexity |-> complexity, requires_current_info |-> current,
     use_web_only |-> web_only]

\* the crisis check runs for emotional queries only
CrisisCheckFor(query_type, query, g) ==
    IF query_type = "emotional" THEN CheckCrisis(query, g)
    ELSE [crisis_detected |-> FALSE, severity |-> "none"]

\* the analysis mapping built from the query type and the crisis check
AnalysisFrom(query_type, crisis_check) ==
    Analysis(IF query_type = "emotional" THEN "emotional_support"
             ELSE query_type,
             query_type,
             IF query_type = "emotional" /\ crisis_check.crisis_detected
             THEN "critical" ELSE crisis_check.severity,
             IF query_type = "emotional" THEN "moderate" ELSE "simple",
             query_type \in {"factual", "practical"},
             query_type \in {"factual", "practical"})

QueryAnalysisOfType(query, g, query_type) ==
    AnalysisFrom(query_type, CrisisCheckFor(query_type, query, g))

\* QueryAgent.process, the try block
QueryAnalysis(query, raises, answer, g) ==
    QueryAnalysisOfType(query, g, ClassifyQueryType(query, raises, answer))

\* every analysis QueryAgent.process can build for a query, over what the
\* classification and crisis-check capabilities may answer; evaluated once
AnalysesOf ==
    [q \in Queries \cup ColonQueries |->
        {QueryAnalysis(q, raises, answer, g) :
            raises \in BOOLEAN, answer \in LLMTypeAnswers, g \in GuardOutcomes}]
    @@ <<>>

\* QueryAgent.process, the except block; the mapping has no complexity key,
\* which the orchestrator reads with the default "simple"
FallbackAnalysis ==
    Analysis("emotional_support", "emotional", "moderate", "simple",
             FALSE, FALSE)

\* ------------------------------------------ agents/base.py: AgentResponse
NoneData == [none |-> TRUE]

AgentResponse(success, data, metadata, error, confidence) ==
    [success |-> success, data |-> data, metadata |-> metadata,
     error |-> error, confidence |-> confidence]

\* BaseAgent.__call__, the except branch: the response that replaces an
\* exception escaping the agent's process
CallFailed(error_type) ==
    AgentResponse(FALSE, NoneData, [error_type |-> error_type], error_type, 0)

NoResponse == AgentResponse(FALSE, NoneData, [none |-> TRUE], "", 0)

\* ---------------------------------- agents/orchestrator.py: response cache
\* hashlib.md5(key.encode()).hexdigest() on the keys the model's inputs build
MD5Hex(key) ==
    CASE key = ":s1:default" -> "e96936b3882a804060d402e2ce9bf205"
      [] key = ":s1:groq" -> "c5b7344f20c456ba47d07f4ac493bcf3"
      [] key = ":s2:default" -> "0dad95bb511bcad30d606837e352c276"
      [] key = ":s2:groq" -> "e02f3fb604d4eb552bd3b2e027228950"
      [] key = "What is suicide?:s1:default" -> "4dbb67072711c1e094231172a3d38cbc"
      [] key = "What is suicide?:s1:groq" -> "99f1c5971b281116cd4a4107b705b3d0"
      [] key = "What is suicide?:s2:default" -> "3711507ba6a97640153ace2bfa39fda9"
      [] key = "What is suicide?:s2:groq" -> "52c876b9859c2b3e3f876396fc956ad0"
      [] key = "I feel sad:s1:default" -> "16adcf6e5c2830b9e72f2205676e66a1"
      [] key = "I feel sad:s1:groq" -> "f354c07be57386f1e9150ef4f457a20f"
      [] key = "I feel sad:s2:default" -> "5a1c5a8a2fe78d04f753967f8ba0c4bb"
      [] key = "I feel sad:s2:groq" -> "587c729f7b98b5579fc04674625a5c18"
      [] key = "i live in paris:s1:default" -> "93203f99b9bbaf70632a20a59215340b"
      [] key = "i live in paris:s1:groq" -> "cc0cfa703a845c31b91739f146fed78c"
      [] key = "i live in paris:s2:default" -> "697ee16a2012f693535390e52c05f927"
      [] key = "i live in paris:s2:groq" -> "3145903bf282516b9b000deb9b428b13"
      [] key = "I feel sad:s1:s2:default" -> "7618bba12a27607df08e5535e10ff72c"
      [] key = "I feel sad:s1:s1:s2:default" -> "f9c8562f2e63c260a1f06bc3ebe3e8bc"

\* _get_cache_key
GetCacheKey(query, session_id, model_preference) ==
    MD5Hex(query \o ":" \o session_id \o ":" \o
           (IF model_preference # NoPref THEN model_preference ELSE "default"))

\* self.response_cache is an insertion-ordered dict: a sequence of entries
\* with distinct keys.  `triple` is auxiliary: the (query, session id, model
\* preference) of the call that stored the entry.
CacheEntry(key, time, response, triple) ==
    [key |-> key, time |-> time, response |-> response, triple |-> triple]

CacheHas(cache, key) == \E i \in 1..Len(cache) : cache[i].key = key

CacheGet(cache, key) ==
    cache[CHOOSE i \in 1..Len(cache) : cache[i].key = key]

\* self.response_cache[cache_key] = (time.time(), final_response)
CachePut(cache, entry) ==
    IF CacheHas(cache, entry.key)
    THEN [i \in 1..Len(cache) |->
            IF cache[i].key = entry.key THEN entry ELSE cache[i]]
    ELSE Append(cache, entry)

\* the entries of a sequence that satisfy Keep, in order
SelectIdx(seq, keep, i) ==
    LET idx == {j \in i..Len(seq) : j \in keep}
        rank == [j \in idx |-> Cardinality({m \in idx : m <= j})]
    IN  [k \in 1..Cardinality(idx) |-> seq[CHOOSE j \in idx : rank[j] = k]]

\* a _clean_cache that removes the newest entries above the ceiling
CleanCacheNewest(cache, t, ttl, ceiling, evict) ==
    LET live == SelectIdx(cache, {i \in 1..Len(cache) :
                                    ~(t - cache[i].time > ttl)}, 1)
        newest == {i \in 1..Len(live) :
                    Cardinality({j \in 1..Len(live) :
                        live[j].time > live[i].time}) < evict}
    IN  IF Len(live) > ceiling
        THEN SelectIdx(live, (1..Len(live)) \ newest, 1)
        ELSE live

\* _clean_cache: drop the expired entries, then, above the ceiling, the
\* `evict` first entries of the stable sort by timestamp
CleanCache(cache, t, ttl, ceiling, evict) ==
    LET live == SelectIdx(cache, {i \in 1..Len(cache) :
                                    ~(t - cache[i].time > ttl)}, 1)
        Before(i, j) == \/ live[i].time < live[j].time
                        \/ live[i].time = live[j].time /\ i < j
        oldest == {i \in 1..Len(live) :
                    Cardinality({j \in 1..Len(live) : Before(j, i)}) < evict}
    IN  IF Len(live) > ceiling
        THEN SelectIdx(live, (1..Len(live)) \ oldest, 1)
        ELSE live

\* a cache test with the age comparison turned round
CacheHitInverted(cache, key, t) ==
    /\ EnableResponseCaching
    /\ CacheHas(cache, key)
    /\ t - CacheGet(cache, key).time > CacheTTL

\* the cache test of process: enable_response_caching and cache_key in
\* self.response_cache and time.time() - cached_time < self.cache_ttl
CacheHit(cache, key, t) ==
    /\ EnableResponseCaching
    /\ CacheHas(cache, key)
    /\ t - CacheGet(cache, key).time < CacheTTL

\* ------------------------------------- agents/orchestrator.py: responses
\* the AgentResponse _handle_crisis returns
CrisisAgentResponse(analysis, model_preference) ==
    AgentResponse(TRUE,
        [response |-> CrisisResponse, confidence |-> 100,
         sources |-> <<"crisis_protocol">>, crisis_detected |-> TRUE,
         model |-> IF model_preference # NoPref
                   THEN "genie-crisis-" \o model_preference
                   ELSE "genie-crisis"],
        [query_analysis |-> analysis, severity |-> "high",
         model_used |-> IF model_preference # NoPref THEN model_preference
                        ELSE "default"],
        "", 100)

\* final_response of process
FinalResponse(synth_data, session_id, model_preference, analysis, retrieval_count, verified_count) ==
    AgentResponse(TRUE,
        [response |-> synth_data.response,
         confidence |-> synth_data.confidence,
         sources |-> synth_data.sources,
         session_id |-> session_id,
         model |-> IF model_preference # NoPref
                   THEN "genie-rag-" \o model_preference ELSE "genie-rag"],
        [query_analysis |-> analysis, retrieval_count |-> retrieval_count,
         verified_count |-> verified_count,
         model_used |-> IF model_preference # NoPref THEN model_preference
                        ELSE "default"],
        "", synth_data.confidence)

\* a handler that leaves confidence at the default of AgentResponse (1.0)
TopLevelErrorDefaultConfidence(error_type) ==
    AgentResponse(FALSE, NoneData, [error_type |-> error_type], error_type,
                  100)

\* process, the handler `except Exception`
TopLevelError(error_type) ==
    AgentResponse(FALSE, NoneData, [error_type |-> error_type], error_type, 0)

\* a max_to_verify with the limits of simple and complex exchanged
MaxToVerifyExchanged(complexity) ==
    IF complexity = "simple" THEN 10
    ELSE IF complexity = "moderate" THEN 8
    ELSE 5

\* max_to_verify of process
MaxToVerify(complexity) ==
    IF complexity = "simple" THEN 5
    ELSE IF complexity = "moderate" THEN 8
    ELSE 10

\* the branch of process that picks the retrieval path (the classifier's
\* intent values are lower-case already, so .lower() changes nothing)
RetrievalPath(analysis) ==
    IF analysis.intent = "emotional_support"
       /\ ~analysis.requires_current_info
    THEN "lightweight" ELSE "full"

\* ---------------------------------------- agents/synthesis_agent.py
\* the confidence SynthesisAgent.process attaches, by response strategy
SynthesisConfidence(analysis, verified) ==
    LET query_type == analysis.query_type
        intent == analysis.intent
    IN  IF query_type \in {"factual", "informational"}
           \/ intent \in {"information_seeking", "education"} THEN 85
        ELSE IF intent \in {"emotional_support", "conversation"} THEN 75
        ELSE IF intent \in {"practical_guidance", "help_seeking"} THEN 80
        ELSE IF Len(verified) > 0 THEN 70
        ELSE 60

\* _format_sources: one source per verified item, numbered from 1
FormatSources(verified) ==
    [i \in 1..Len(verified) |-> [id |-> i, item |-> verified[i].item]]

\* the data mapping SynthesisAgent.process returns; `failed` is its except
\* branch
SynthesisData(analysis, verified, reply, failed) ==
    IF failed
    THEN [response |-> SynthesisFallbackText, confidence |-> 50,
          sources |-> FormatSources(verified)]
    ELSE [response |-> reply,
          confidence |-> SynthesisConfidence(analysis, verified),
          sources |-> FormatSources(verified)]

\* ------------------------------------------------- main.py: GenieAI.chat
EmptyQueryText ==
    "I notice you haven't entered a question. How can I help you today?"

ApologyText ==
    "I apologize, but I encountered an error processing your request. Please try rephrasing your question."

\* the validation of chat: not query or not query.strip()
IsBlankQuery(query) == query = "" \/ Strip(query) = ""

\* the mapping chat returns for the response of the orchestrator
ChatReturn(response) ==
    IF response.success THEN response.data
    ELSE [response |-> ApologyText, confidence |-> 0,
          error |-> response.error]

ChatEmptyReturn == [response |-> EmptyQueryText, confidence |-> 100, error |-> ""]

\* ------------------------------------------------------------------ state
VARIABLES
    memory,           \* ConversationMemory: conversations, summaries, facts
    response_cache,   \* OrchestratorAgent.response_cache
    now,              \* time.time()
    ticks,            \* number of clock advances so far
    starts,           \* number of calls started so far
    call,             \* the process/chat calls in flight, by slot
    search,           \* RetrievalAgent: search_cache and the retrieval in flight
    graph,            \* GraphStore: graph, indexes, search and neighbor caches
    verifier,         \* VerifierAgent: verification_cache and the last result
    evict,            \* one timestamped cache under _clean_cache
    batch,            \* OrchestratorAgent._batch_verify: one batch in flight
    journal           \* the calls made on ConversationMemory and their results

vars ==
    <<memory, response_cache, now, ticks, starts, call, search, graph, verifier, evict, batch, journal>>

\* the pipeline's own variables, and those of the components it calls
pipeline_vars == <<memory, response_cache, starts, call>>
component_vars == <<search, graph, verifier, evict, batch, journal>>

\* auxiliary: no earlier call left a cached response
NoLast == [triple |-> <<>>, time |-> 0, response |-> NoResponse]

\* A call slot.  pc is the await the call is suspended at ("classify",
\* "retrieve", "verify", "synth"), "done" once it has returned, "idle" when
\* the slot is free.  The fields from `started` on are auxiliary records of
\* what the call did: the clock at its start, the stages it awaited, the
\* messages it appended, whether it wrote the cache or was served from it,
\* how it returned, the urgency its classification reported, the stage that
\* answered success=false, and what the call before it left in the cache.
IdleCall ==
    [pc |-> "idle", entry |-> "process", query |-> "", session_id |-> "",
     pref |-> NoPref, analysis |-> FallbackAnalysis, retrieved |-> 0,
     to_verify |-> 0, verified |-> <<>>, path |-> "none",
     result |-> NoResponse, mapping |-> NoneData,
     started |-> 0, stages |-> {}, appended |-> <<>>, wrote_cache |-> FALSE,
     hit |-> FALSE, via |-> "none", urgency |-> "unknown",
     failed_stage |-> "none", last |-> NoLast]

\* what the generation capability may answer to a summarization request
LLMSummaryOutcomes ==
    {LLMRaises, LLMText(""), LLMText("The user feels sad and asks for help.")}

\* the answers that matter to an add_message on session sid: the capability
\* is asked only when the log has at least 10 messages
SummaryOutcomesFor(sid) ==
    IF HasSession(memory, sid)
       /\ Len(memory.conversations[sid]) + 1 >= MinHistoryToSummarize
    THEN LLMSummaryOutcomes ELSE {LLMRaises}

\* self.memory.add_message(...) as the orchestrator constructs the memory
MemoryAdd(sid, role, content, origin, llm) ==
    AddMessage(memory, sid, role, content, origin, <<llm, llm>>,
               MaxMemoryTokens, ConversationWindow)

\* a call returns: its local variables are gone, and chat maps the
\* orchestrator's response for its caller
Returned(c, rec) ==
    call' = [call EXCEPT ![c] =
                [rec EXCEPT !.pc = "done",
                            !.analysis = IdleCall.analysis,
                            !.retrieved = 0, !.to_verify = 0,
                            !.verified = <<>>, !.path = "none",
                            !.mapping = IF rec.entry = "any"
                                        THEN ChatReturn(rec.result)
                                        ELSE NoneData]]

\* ------------------------------------------- components: initial values
\* RetrievalAgent after __init__: an empty search_cache, no retrieval in
\* flight.  The fields from `session` on are auxiliary records of the last
\* retrieval: who asked, what each source did, which cache entry answered.
SearchIdle ==
    [cache |-> <<>>, pc |-> "idle", calls |-> 0, path |-> "none",
     query |-> "", analysis |-> FallbackAnalysis, strategy |-> <<>>,
     tasks |-> <<>>, result |-> NoResponse,
     session |-> "", outcomes |-> <<>>, via |-> "none", entry_of |-> ""]

\* GraphStore after __init__: the graph (nodes and edges in insertion
\* order), search_cache and neighbor_cache; the indexes follow from the nodes.
\* The fields from `op` on are auxiliary records of the last call.
GraphEmpty ==
    [nodes |-> <<>>, edges |-> <<>>, search_cache |-> <<>>,
     neighbor_cache |-> <<>>, adds |-> 0, searches |-> 0,
     op |-> "none", at |-> 0, s |-> "", o |-> "", term |-> "", hop |-> 0,
     limit |-> 0,
     via |-> "none", matched |-> {}, top |-> <<>>, used |-> <<>>,
     results |-> <<>>]

\* the mapping with none of the keys of a retrieved item
NoItem == [text |-> "", source |-> "", url |-> "", score |-> 0, none |-> TRUE]

\* VerifierAgent after __init__: verification_cache, and the response the
\* last call returned (`ref`: the key of the cache entry that is this object;
\* `text`, `query`: what the call was given; `asked`: whether it invoked the
\* generation capability; `item`: the information mapping it was given)
VerifierIdle ==
    [cache |-> <<>>, pc |-> "idle", calls |-> 0, via |-> "none", ref |-> "",
     result |-> NoResponse, text |-> "", query |-> "", asked |-> FALSE,
     item |-> NoItem]

\* one timestamped cache, before any write.  `before`, `at`, `gone`, `looked`
\* and `hit` are auxiliary records of the last write and the last lookup.
EvictIdle ==
    [kind |-> "none", cache |-> <<>>, op |-> "none", stores |-> 0, at |-> 0,
     before |-> <<>>, gone |-> {}, looked |-> 0, hit |-> FALSE]

\* no batch verification in flight.  `retrieved` is the retrieval result,
\* `to_verify` the items handed to the verifier, `outcomes` how the
\* verification of each ends, `passed` the list returned for synthesis.
BatchIdle ==
    [pc |-> "idle", batches |-> 0, complexity |-> "simple", retrieved |-> <<>>,
     to_verify |-> <<>>, outcomes |-> <<>>, passed |-> <<>>, via |-> "none"]

\* no call on the memory yet
JournalIdle ==
    [op |-> "none", sid |-> "", adds |-> 0, fills |-> 0, left |-> 0, gets |-> 0, clears |-> 0, at |-> 0,
     appended |-> [s \in Sessions |-> 0], triggered |-> FALSE, usable |-> FALSE,
     before |-> EmptyMemory, returned |-> <<>>, earlier |-> <<>>, again |-> FALSE]

Init ==
    /\ memory = EmptyMemory
    /\ response_cache = <<>>
    /\ now = 0
    /\ ticks = 0
    /\ starts = 0
    /\ call = [c \in Slots |-> IdleCall]
    /\ search = SearchIdle
    /\ graph = GraphEmpty
    /\ verifier = VerifierIdle
    /\ evict = EvictIdle
    /\ batch = BatchIdle
    /\ journal = JournalIdle

\* chat(query, ...) with a blank query: the validation answers, the
\* orchestrator is not called
ChatBlank(c, query) ==
    /\ call[c].pc \in {"idle", "done"}
    /\ starts < MaxStarts
    /\ IsBlankQuery(query)
    /\ starts' = starts + 1
    /\ call' = [call EXCEPT ![c] =
            [IdleCall EXCEPT !.pc = "done", !.entry = "chat",
                             !.query = query, !.via = "blank",
                             !.mapping = ChatEmptyReturn]]
    /\ UNCHANGED <<memory, response_cache, now, ticks, component_vars>>

\* auxiliary: what the call that just returned left in the cache (a call
\* that ran the whole pipeline stores its response when it returns)
LastOf(rec) ==
    IF rec.pc = "done" /\ rec.via = "pipeline" /\ rec.wrote_cache
    THEN [triple |-> <<rec.query, rec.session_id, rec.pref>>,
          time |-> rec.started, response |-> rec.result]
    ELSE NoLast

\* the record of a call that enters process
StartRecord(entry, query, session_id, pref, t, last) ==
    [IdleCall EXCEPT !.entry = entry, !.query = query,
                     !.session_id = session_id, !.pref = pref,
                     !.started = t, !.last = last]

\* a cache test placed after add_message of the user query
StartHitAfterAdd(c, rec, cached) ==
    /\ Returned(c, [rec EXCEPT !.hit = TRUE, !.via = "cache",
                               !.result = cached])
    /\ memory' = MemoryAdd(rec.session_id, "user", rec.query, rec.session_id,
                           LLMRaises).mem

\* process on a cache hit: return cached_response
StartHit(c, rec, cached) ==
    /\ Returned(c, [rec EXCEPT !.hit = TRUE, !.via = "cache",
                               !.result = cached])
    /\ UNCHANGED memory

\* process on a miss: add_message of the user query (`add` is its outcome),
\* whose exception the handler `except Exception` answers
StartMiss(c, rec, add) ==
    /\ memory' = add.mem
    /\ IF add.raised
       THEN Returned(c, [rec EXCEPT
                !.appended = <<[sid |-> rec.session_id, role |-> "user",
                                content |-> rec.query]>>,
                !.via = "error",
                !.result = TopLevelError("IndexError")])
       ELSE call' = [call EXCEPT ![c] =
                [rec EXCEPT
                    !.appended = <<[sid |-> rec.session_id, role |-> "user",
                                    content |-> rec.query]>>,
                    !.pc = "classify"]]

StartWith(c, rec, key) ==
    IF CacheHit(response_cache, key, now)
    THEN StartHit(c, rec, CacheGet(response_cache, key).response)
    ELSE \E llm \in SummaryOutcomesFor(rec.session_id) :
            StartMiss(c, rec, MemoryAdd(rec.session_id, "user", rec.query,
                                        rec.session_id, llm))

\* process(query, session_id, context) up to its first await: the cache
\* test, then get_history and add_message of the user query
ProcessStart(c, entry, query, session_id, pref) ==
    /\ call[c].pc \in {"idle", "done"}
    /\ starts < MaxStarts
    /\ IsBlankQuery(query) => entry = "process"
    /\ ~IsBlankQuery(query) => entry = "any"
    /\ starts' = starts + 1
    /\ StartWith(c,
            StartRecord(entry, query, session_id, pref, now, LastOf(call[c])),
            GetCacheKey(query, session_id, pref))
    /\ UNCHANGED <<response_cache, now, ticks, component_vars>>

\* the response of `await self.query_agent(...)`
ClassifyResponse(query, escaped, inner, an) ==
    IF escaped THEN CallFailed("Exception")
    ELSE AgentResponse(TRUE, IF inner THEN FallbackAnalysis ELSE an,
                       [original_query |-> query], "",
                       IF inner THEN 60 ELSE 95)

\* a crisis branch that returns the crisis response without storing it
HandleCrisisWithoutMemory(c, rec, analysis, add) ==
    /\ memory' = memory
    /\ Returned(c, [rec EXCEPT
          !.analysis = analysis, !.via = "crisis",
          !.result = CrisisAgentResponse(analysis, rec.pref)])

\* _handle_crisis: the crisis reply is stored under the session id "crisis"
HandleCrisis(c, rec, analysis, add) ==
    /\ memory' = add.mem
    /\ Returned(c, [rec EXCEPT
          !.analysis = analysis, !.via = "crisis",
          !.appended = Append(@, [sid |-> "crisis", role |-> "assistant",
                                  content |-> CrisisResponse]),
          !.result = CrisisAgentResponse(analysis, rec.pref)])

\* process from the classifier's response qa to its next await
AfterClassify(c, rec, qa) ==
    IF ~qa.success
    THEN /\ Returned(c, [rec EXCEPT !.via = "stage_failed", !.result = qa])
         /\ UNCHANGED memory
    ELSE IF qa.data.urgency_level = "critical"
    THEN \E llm \in SummaryOutcomesFor("crisis") :
            HandleCrisis(c, rec, qa.data,
                MemoryAdd("crisis", "assistant", CrisisResponse,
                          rec.session_id, llm))
    ELSE /\ call' = [call EXCEPT ![c] =
                [rec EXCEPT !.pc = "retrieve", !.analysis = qa.data,
                            !.path = RetrievalPath(qa.data)]]
         /\ UNCHANGED memory

\* await self.query_agent(...) completes, then process runs to its next
\* await: the success test, the crisis test (_handle_crisis) and the choice
\* of the retrieval path.  `escaped` is an exception leaving
\* QueryAgent.process (BaseAgent.__call__ turns it into success=false),
\* `inner` one caught by its own except block, `an` the analysis its try
\* block builds otherwise.
ClassifyReturns(c, escaped, inner, an) ==
    /\ call[c].pc = "classify"
    /\ AfterClassify(c,
            [call[c] EXCEPT
                !.stages = @ \cup {"classify"},
                !.urgency = IF escaped THEN @
                            ELSE IF inner THEN FallbackAnalysis.urgency_level
                            ELSE an.urgency_level,
                !.failed_stage =
                    IF ClassifyResponse(call[c].query, escaped, inner,
                                        an).success
                    THEN @ ELSE "classify"],
            ClassifyResponse(call[c].query, escaped, inner, an))
    /\ UNCHANGED <<response_cache, now, ticks, starts, component_vars>>

\* a pipeline that goes on to synthesis when retrieval answered success=false
AfterRetrievalIgnoresFailure(c, rec, rr) ==
    call' = [call EXCEPT ![c] =
        [rec EXCEPT
            !.retrieved = IF rr.success THEN Len(rr.data.items) ELSE 0,
            !.to_verify = IF rr.success
                          THEN Min(Len(rr.data.items),
                                   MaxToVerify(rec.analysis.complexity))
                          ELSE 0,
            !.verified = <<>>,
            !.pc = IF rr.success /\ Len(rr.data.items) > 0 THEN "verify"
                   ELSE "synth"]]

\* process after the retrieval response is in: the success test, then
\* max_to_verify and _batch_verify up to its await (no await when there is
\* nothing to verify), which leaves the call at the verification or at the
\* synthesis await
AfterRetrieval(c, rec, rr) ==
    IF ~rr.success
    THEN Returned(c, [rec EXCEPT !.via = "stage_failed", !.result = rr])
    ELSE call' = [call EXCEPT ![c] =
            [rec EXCEPT
                !.retrieved = Len(rr.data.items),
                !.to_verify = Min(Len(rr.data.items),
                                  MaxToVerify(rec.analysis.complexity)),
                !.verified = <<>>,
                !.pc = IF Len(rr.data.items) = 0 THEN "synth" ELSE "verify"]]

\* the retrieval agent answers: n items, success=false from its own except
\* block, or an exception escaping it
RetrievalResponse(outcome, n) ==
    IF outcome = "ok"
    THEN AgentResponse(TRUE, [items |-> [i \in 1..n |-> i]],
                       [final_count |-> n], "", 80)
    ELSE IF outcome = "failed"
    THEN AgentResponse(FALSE, [items |-> <<>>], [error |-> "error"],
                       "error", 100)
    ELSE IF outcome = "timeout"
    THEN AgentResponse(TRUE, [items |-> [i \in 1..n |-> i]],
                       [error |-> "timeout"], "", 40)
    ELSE CallFailed("Exception")

RetrieveReturns(c, outcome, n) ==
    /\ call[c].pc = "retrieve"
    /\ AfterRetrieval(c,
            [call[c] EXCEPT
                !.stages = @ \cup {"retrieve"},
                !.failed_stage = IF RetrievalResponse(outcome, n).success
                                 THEN @ ELSE "retrieve"],
            RetrievalResponse(outcome, n))
    /\ UNCHANGED <<memory, response_cache, now, ticks, starts, component_vars>>

\* the 15 s deadline of the retrieval fan-out expires: the emergency
\* fallback answers with success=true and confidence 0.4
RetrieveTimeout(c, n) ==
    /\ call[c].pc = "retrieve"
    /\ AfterRetrieval(c, [call[c] EXCEPT !.stages = @ \cup {"retrieve"}],
                      RetrievalResponse("timeout", n))
    /\ UNCHANGED <<memory, response_cache, now, ticks, starts, component_vars>>

\* how the verification of one item can end
VerifyOutcomes ==
    {"accept", "use_with_caution", "reject_low", "reject_decent", "failed",
     "item_timeout"}

\* the filter loop of _batch_verify over the gathered results
RECURSIVE ValidResults(_, _)
ValidResults(outs, i) ==
    IF i > Len(outs) THEN <<>>
    ELSE IF outs[i] = "accept"
    THEN <<[item |-> i, recommendation |-> "accept"]>>
         \o ValidResults(outs, i + 1)
    ELSE IF outs[i] \in {"use_with_caution", "reject_decent", "item_timeout"}
    THEN <<[item |-> i, recommendation |-> "use_with_caution"]>>
         \o ValidResults(outs, i + 1)
    ELSE ValidResults(outs, i + 1)

\* asyncio.gather of _batch_verify completes within the batch deadline
VerifyReturns(c, outs) ==
    /\ call[c].pc = "verify"
    /\ Len(outs) = call[c].to_verify
    /\ call' = [call EXCEPT ![c] =
            [@ EXCEPT !.stages = @ \cup {"verify"},
                      !.verified = ValidResults(outs, 1),
                      !.pc = "synth"]]
    /\ UNCHANGED <<memory, response_cache, now, ticks, starts, component_vars>>

\* the batch deadline of _batch_verify expires: the first two unverified
\* items are passed on, without a recommendation
VerifyTimeout(c) ==
    /\ call[c].pc = "verify"
    /\ call' = [call EXCEPT ![c] =
            [@ EXCEPT !.stages = @ \cup {"verify"},
                      !.verified = [i \in 1..Min(2, call[c].to_verify) |->
                            [item |-> i, recommendation |-> "absent"]],
                      !.pc = "synth"]]
    /\ UNCHANGED <<memory, response_cache, now, ticks, starts, component_vars>>

\* the response of `await self.synthesis_agent(...)`
SynthResponse(analysis, verified, outcome, reply) ==
    IF outcome = "escaped" THEN CallFailed("Exception")
    ELSE AgentResponse(TRUE,
            SynthesisData(analysis, verified, reply, outcome = "fallback"),
            [response_type |-> "any"], "",
            SynthesisData(analysis, verified, reply,
                          outcome = "fallback").confidence)

\* self.response_cache[cache_key] = (time.time(), final_response) followed
\* by _clean_cache, when caching is enabled
CacheWrite(cache, key, t, final, triple) ==
    IF EnableResponseCaching
    THEN CleanCache(CachePut(cache, CacheEntry(key, t, final, triple)),
                    t, CacheTTL, MaxCacheEntries, EvictCount)
    ELSE cache

\* the end of process: add_message of the reply (`add` is its outcome), the
\* final response, the cache write
Finish(c, rec, reply_text, add, final) ==
    /\ memory' = add.mem
    /\ response_cache' =
            CacheWrite(response_cache,
                       GetCacheKey(rec.query, rec.session_id, rec.pref),
                       now, final, <<rec.query, rec.session_id, rec.pref>>)
    /\ Returned(c, [rec EXCEPT
          !.via = "pipeline",
          !.wrote_cache = EnableResponseCaching,
          !.appended = Append(@, [sid |-> rec.session_id,
                                  role |-> "assistant",
                                  content |-> reply_text]),
          !.result = final])

\* process from the synthesis response sr on
AfterSynthesis(c, rec, sr) ==
    IF ~sr.success
    THEN /\ Returned(c, [rec EXCEPT !.via = "stage_failed", !.result = sr])
         /\ UNCHANGED <<memory, response_cache>>
    ELSE \E llm \in SummaryOutcomesFor(rec.session_id) :
            Finish(c, rec, sr.data.response,
                   MemoryAdd(rec.session_id, "assistant", sr.data.response,
                             rec.session_id, llm),
                   FinalResponse(sr.data, rec.session_id, rec.pref,
                        rec.analysis, rec.retrieved, Len(rec.verified)))

\* await self.synthesis_agent(...) completes and process runs to its end:
\* the success test, add_message of the reply, the final response, the cache
\* write with _clean_cache
SynthReturns(c, outcome, reply) ==
    /\ call[c].pc = "synth"
    /\ AfterSynthesis(c,
            [call[c] EXCEPT
                !.stages = @ \cup {"synth"},
                !.failed_stage =
                    IF SynthResponse(call[c].analysis, call[c].verified,
                                     outcome, reply).success
                    THEN @ ELSE "synth"],
            SynthResponse(call[c].analysis, call[c].verified, outcome, reply))
    /\ UNCHANGED <<now, ticks, starts, component_vars>>

\* time.time() advances.  The clock is read by the cache test at the start
\* of a call and by the cache write at its end, and only differences of
\* readings matter, so the time that passes is placed between two calls.
Tick(d) ==
    /\ ticks < MaxTicks
    /\ starts < MaxStarts
    /\ \E c \in Calls : call[c].pc = "done"
    /\ \A c \in Calls : call[c].pc \in {"idle", "done"}
    /\ now' = now + d
    /\ ticks' = ticks + 1
    /\ UNCHANGED <<memory, response_cache, starts, call, component_vars>>

\* a slot is free before its first call and once its call has returned
Free(c) == call[c].pc \in {"idle", "done"}

\* a new call starts once the slot's call has returned
FirstIdle(c) == \A d \in Calls : Free(d)

Next ==
    \/ \E c \in Calls, q \in Queries :
            FirstIdle(c) /\ ChatBlank(c, q)
    \/ \E c \in Calls, e \in Entries, q \in Queries, s \in Sessions,
          p \in Prefs :
            FirstIdle(c) /\ ProcessStart(c, e, q, s, p)
    \/ \E c \in Calls, o \in {"ok", "inner", "escaped"} :
            \E an \in (IF o = "ok" THEN AnalysesOf[call[c].query]
                       ELSE {FallbackAnalysis}) :
                ClassifyReturns(c, o = "escaped", o = "inner", an)
    \/ \E c \in Calls, o \in {"ok", "failed", "escaped"}, n \in 0..MaxItems :
            RetrieveReturns(c, o, n)
    \/ \E c \in Calls, n \in 0..Min(3, MaxItems) : RetrieveTimeout(c, n)
    \/ \E c \in Calls, k \in 1..MaxItems :
            \E outs \in [1..k -> VerifyOutcomes] : VerifyReturns(c, outs)
    \/ \E c \in Calls : VerifyTimeout(c)
    \/ \E c \in Calls, o \in {"ok", "fallback", "escaped"}, r \in Replies :
            SynthReturns(c, o, r)
    \/ \E d \in {CacheTTL - 1, CacheTTL} : Tick(d)

Spec == Init /\ [][Next]_vars

\* The event loop fires an expired deadline and runs a call's own code; a
\* capability the call awaits (classification, a search, generation) is
\* under no obligation to answer.
FairSpec ==
    /\ Spec
    /\ \A c \in Calls :
        /\ WF_vars(\E n \in 0..Min(3, MaxItems) : RetrieveTimeout(c, n))
        /\ WF_vars(VerifyTimeout(c))

TypeOK ==
    /\ now \in Nat /\ ticks \in 0..MaxTicks /\ starts \in 0..MaxStarts
    /\ \A c \in Calls : call[c].pc \in
            {"idle", "classify", "retrieve", "verify", "synth", "done"}

\* ============================== agents/retrieval_agent.py: RetrievalAgent
\* bounds of the retrieval component
MaxRetrievals == 2     \* RetrievalAgent.process calls in one behaviour

\* program constants of the retrieval component
SearchCacheTTL == 300            \* retrieval_agent.py:40
SearchCacheCeiling == 50         \* retrieval_agent.py:524
SearchEvictCount == 25           \* retrieval_agent.py:526
MinFinalScore == 250             \* retrieval_agent.py:449 (0.25, in thousandths)
LightweightTopK == 5             \* orchestrator.py:235

RetrievalQueries == {"I feel sad"}

\* the analyses the retrieval coordinator is called with: every intent and
\* complexity for a factual query, and one analysis or two for each other
\* branch of the strategy
RetrievalAnalyses ==
    {Analysis(intent, "factual", "none", complexity, FALSE, FALSE) :
        intent \in {"emotional_support", "information_seeking",
                    "help_seeking", "factual"},
        complexity \in {"simple", "complex"}}
    \cup {Analysis("emotional_support", "emotional", "none", "simple",
                   current, current) : current \in BOOLEAN}
    \cup {Analysis("practical", "practical", "none", "simple", FALSE, FALSE)}
    \cup {Analysis("general", "general", "none", complexity, FALSE, FALSE) :
            complexity \in {"simple", "complex"}}

\* _lightweight_retrieval: retrieval_analysis
LightweightAnalysis(query_analysis) ==
    [intent |-> query_analysis.intent,
     query_type |-> query_analysis.query_type,
     urgency_level |-> query_analysis.urgency_level,
     complexity |-> query_analysis.complexity,
     requires_current_info |-> query_analysis.requires_current_info,
     use_web_only |-> FALSE,
     retrieval_strategy |-> <<"vector">>,
     top_k |-> LightweightTopK]

\* one strategy mapping; weights in tenths, hop_distance 0 when the key is
\* absent
Strategy(methods, weights, top_k, skip_rerank, max_entities, hop_distance, query_type) ==
    [methods |-> methods, weights |-> weights, top_k |-> top_k,
     skip_rerank |-> skip_rerank, max_entities |-> max_entities,
     hop_distance |-> hop_distance, query_type |-> query_type]

\* a strategy chosen by the complexity alone
DetermineFastStrategyByComplexity(query_analysis) ==
    IF Lower(query_analysis.complexity) = "simple"
    THEN Strategy(<<"vector">>, [vector |-> 10], 10, TRUE, 0, 0, "simple")
    ELSE Strategy(<<"vector", "web", "graph">>,
                  [vector |-> 4, web |-> 4, graph |-> 2],
                  20, FALSE, 1, 1, "complex")

\* _determine_fast_strategy
DetermineFastStrategy(query_analysis) ==
    LET query_type == Lower(query_analysis.query_type)
        intent == Lower(query_analysis.intent)
        complexity == Lower(query_analysis.complexity)
    IN  IF query_type = "emotional"
           \/ intent \in {"emotional_support", "conversation"}
        THEN Strategy(<<"vector", "bm25", "web">>,
                      [vector |-> 5, bm25 |-> 3, web |-> 2],
                      15, FALSE, 0, 0, "emotional")
        ELSE IF query_type = "factual"
                \/ intent \in {"information_seeking", "education"}
        THEN Strategy(<<"web", "graph">>, [web |-> 7, graph |-> 3],
                      15, FALSE, 2, 1, "factual")
        ELSE IF query_type = "practical"
                \/ intent \in {"practical_guidance", "help_seeking"}
        THEN Strategy(<<"web">>, [web |-> 10], 12, FALSE, 0, 0, "practical")
        ELSE IF complexity = "simple"
        THEN Strategy(<<"vector">>, [vector |-> 10], 10, TRUE, 0, 0, "simple")
        ELSE Strategy(<<"vector", "web", "graph">>,
                      [vector |-> 4, web |-> 4, graph |-> 2],
                      20, FALSE, 1, 1, "complex")

\* x in seq
InSeq(x, seq) == \E i \in 1..Len(seq) : seq[i] = x

\* the first n elements of a sequence (seq[:n])
Take(seq, n) == SubSeq(seq, 1, Min(n, Len(seq)))

\* mental_health_entities of _extract_entities_optimized, in dict order
MentalHealthEntities ==
    <<<<"anxiety", {"anxiety", "anxious", "worried", "panic", "fear"}>>,
      <<"depression", {"depression", "depressed", "sad", "hopeless", "mood"}>>,
      <<"stress", {"stress", "stressed", "overwhelm", "pressure", "burden"}>>,
      <<"therapy", {"therapy", "counseling", "treatment", "therapeutic"}>>,
      <<"cognitive_behavioral_therapy",
        {"cbt", "cognitive behavioral", "cognitive therapy"}>>,
      <<"medication", {"medication", "antidepressant", "ssri", "medicine"}>>,
      <<"mindfulness", {"mindfulness", "meditation", "breathing", "relaxation"}>>,
      <<"support", {"support", "help", "guidance", "assistance"}>>,
      <<"coping", {"coping", "cope", "manage", "deal", "handle"}>>,
      <<"mental_health",
        {"mental health", "wellbeing", "wellness", "psychological"}>>>>

TreatmentEntities ==
    {"therapy", "cognitive_behavioral_therapy", "medication", "treatment"}

\* the elements of seq that are in (keep = TRUE) or not in (keep = FALSE) S
RECURSIVE FilterSeq(_, _, _)
FilterSeq(seq, S, keep) ==
    IF seq = <<>> THEN <<>>
    ELSE IF (Head(seq) \in S) = keep
    THEN <<Head(seq)>> \o FilterSeq(Tail(seq), S, keep)
    ELSE FilterSeq(Tail(seq), S, keep)

\* the entities whose keywords occur in the lower-cased query, in dict order
RECURSIVE MatchedEntities(_, _)
MatchedEntities(query_lower, i) ==
    IF i > Len(MentalHealthEntities) THEN <<>>
    ELSE IF AnyIn(MentalHealthEntities[i][2], query_lower)
    THEN <<MentalHealthEntities[i][1]>> \o MatchedEntities(query_lower, i + 1)
    ELSE MatchedEntities(query_lower, i + 1)

\* the reordering of _extract_entities_optimized for factual queries, and
\* its cut to three entities
PrioritizeEntities(entities, query_type) ==
    Take(IF query_type = "factual"
            /\ FilterSeq(entities, TreatmentEntities, TRUE) # <<>>
         THEN FilterSeq(entities, TreatmentEntities, TRUE)
              \o FilterSeq(entities, TreatmentEntities, FALSE)
         ELSE entities, 3)

\* _extract_entities_optimized
ExtractEntitiesOptimized(query, query_analysis) ==
    PrioritizeEntities(
        IF MatchedEntities(Low(query), 1) = <<>> THEN <<"mental_health">>
        ELSE MatchedEntities(Low(query), 1),
        Lower(query_analysis.query_type))

\* the entities searched in the graph, evaluated once per query
GraphEntitiesOf ==
    [q \in Queries |->
        [t \in {"factual", "other"} |->
            ExtractEntitiesOptimized(q, [query_type |-> t])]] @@ <<>>

\* one graph task per entity
GraphTasks(entities) == [i \in 1..Len(entities) |-> "graph"]

\* the tasks _execute_fast_retrieval creates, in order (task_info); the four
\* sources are configured, as GenieAI.initialize does
TasksOf(query, strategy, query_analysis) ==
    (IF InSeq("vector", strategy.methods) THEN <<"vector">> ELSE <<>>)
    \o (IF InSeq("bm25", strategy.methods) THEN <<"bm25">> ELSE <<>>)
    \o (IF InSeq("graph", strategy.methods) /\ strategy.max_entities > 0
        THEN GraphTasks(Take(
                GraphEntitiesOf[query][IF query_analysis.query_type = "factual"
                                       THEN "factual" ELSE "other"],
                strategy.max_entities))
        ELSE <<>>)
    \o (IF InSeq("web", strategy.methods) THEN <<"web">> ELSE <<>>)

\* what one source can do: return items with a score (hundredths), return
\* nothing, raise, or not answer before any deadline
SourceOutcomes ==
    {[kind |-> "items", score |-> 90],
     [kind |-> "empty", score |-> 0], [kind |-> "raises", score |-> 0],
     [kind |-> "slow", score |-> 0]}

\* a source wrapper without a deadline of its own (_vector_search,
\* _bm25_search); _graph_search_optimized and _web_search_fast have one
Unbounded(method) == method \in {"vector", "bm25"}

\* the list one task of the fan-out returns: every wrapper answers [] when
\* its source raises, the graph and web wrappers also when their own
\* deadline expires; _web_search_fast sets the scores 0.8 - 0.1 * i
TaskResult(method, out, i) ==
    IF out.kind # "items" THEN <<>>
    ELSE <<[task |-> i, method |-> method, source |-> method \o "_search",
            score |-> IF method = "web" THEN 80 ELSE out.score]>>

\* the loop of _execute_fast_retrieval over the gathered results
RECURSIVE AllResults(_, _, _)
AllResults(tasks, outs, i) ==
    IF i > Len(tasks) THEN <<>>
    ELSE TaskResult(tasks[i], outs[i], i) \o AllResults(tasks, outs, i + 1)

\* the weight _combine_results_fast applies to an item, in tenths
WeightOf(item, weights) ==
    IF item.method \in DOMAIN weights THEN weights[item.method] ELSE 10

Scored(item, weights) ==
    [task |-> item.task, method |-> item.method, source |-> item.source,
     score |-> item.score, final_score |-> item.score * WeightOf(item, weights)]

\* list.sort(key=final_score, reverse=True), which is stable
SortByFinalScore(results) ==
    LET Before(i, j) == \/ results[i].final_score > results[j].final_score
                        \/ /\ results[i].final_score = results[j].final_score
                           /\ i < j
        Rank(i) == Cardinality({j \in 1..Len(results) : Before(j, i)}) + 1
    IN  [k \in 1..Len(results) |->
            results[CHOOSE i \in 1..Len(results) : Rank(i) = k]]

\* _combine_results_fast; final_score in thousandths
CombineResultsFast(results, weights) ==
    SortByFinalScore([i \in 1..Len(results) |-> Scored(results[i], weights)])

RECURSIVE AboveMinScore(_)
AboveMinScore(results) ==
    IF results = <<>> THEN <<>>
    ELSE IF Head(results).final_score > MinFinalScore
    THEN <<Head(results)>> \o AboveMinScore(Tail(results))
    ELSE AboveMinScore(Tail(results))

\* _apply_fast_filtering
ApplyFastFiltering(results, strategy) ==
    Take(AboveMinScore(results), strategy.top_k)

\* _calculate_retrieval_confidence, in hundredths: the mean of the top two
\* final scores, kept within [0.2, 0.9]
CalculateRetrievalConfidence(results) ==
    IF results = <<>> THEN 20
    ELSE LET top == Take(results, 2)
             total == IF Len(top) = 1 THEN top[1].final_score
                      ELSE top[1].final_score + top[2].final_score
         IN  Min(90, IF total \div (10 * Len(top)) < 20 THEN 20
                     ELSE total \div (10 * Len(top)))

\* the deadline of 10 s around the gather expires when a task without a
\* deadline of its own does not answer
GatherTimesOut(tasks, outs) ==
    \E i \in 1..Len(tasks) : Unbounded(tasks[i]) /\ outs[i].kind = "slow"

\* _execute_fast_retrieval: on the deadline all_results is still empty
ExecuteFastRetrieval(tasks, outs, strategy) ==
    IF tasks = <<>> \/ GatherTimesOut(tasks, outs) THEN <<>>
    ELSE CombineResultsFast(AllResults(tasks, outs, 1), strategy.weights)

\* the response of RetrievalAgent.process for the results of the fan-out
\* (no reranking: it needs more than 8 results)
RetrievalResult(results, strategy) ==
    AgentResponse(TRUE, ApplyFastFiltering(results, strategy),
        [total_retrieved |-> Len(results),
         final_count |-> Len(ApplyFastFiltering(results, strategy)),
         strategies_used |-> strategy.methods],
        "",
        CalculateRetrievalConfidence(ApplyFastFiltering(results, strategy)))

\* the placeholder item of _emergency_fallback_search
EmergencyPlaceholder ==
    [task |-> 0, method |-> "none", source |-> "emergency_fallback",
     score |-> 30, final_score |-> 0]

\* _emergency_fallback_search: the vector store answers within 3 s with its
\* items (possibly none), or the placeholder is returned
EmergencyFallbackSearch(out) ==
    IF out.kind = "items"
    THEN <<[task |-> 0, method |-> "vector",
            source |-> "emergency_vector_search",
            score |-> (out.score * 8) \div 10, final_score |-> 0]>>
    ELSE IF out.kind = "empty" THEN <<>>
    ELSE <<EmergencyPlaceholder>>

\* the response of the handler `except asyncio.TimeoutError` of process
EmergencyResponse(out) ==
    AgentResponse(TRUE, EmergencyFallbackSearch(out),
                  [error |-> "timeout", strategies_used |-> <<"fallback">>],
                  "", 40)

\* cache_key of RetrievalAgent.process
SearchCacheKey(original_query, query_analysis) ==
    original_query \o ":" \o query_analysis.intent

\* search_cache[cache_key] = (time.time(), response), then _clean_cache;
\* `session` is auxiliary: the session the entry was created for
SearchCacheWrite(cache, key, t, response, session) ==
    CleanCache(CachePut(cache, CacheEntry(key, t, response, session)),
               t, SearchCacheTTL, SearchCacheCeiling, SearchEvictCount)

\* the cache test of RetrievalAgent.process
SearchCacheHit(cache, key, t) ==
    /\ CacheHas(cache, key)
    /\ t - CacheGet(cache, key).time < SearchCacheTTL

\* the record of a retrieval that starts
SearchStarted(path, query, query_analysis, session) ==
    [SearchIdle EXCEPT !.cache = search.cache, !.calls = search.calls + 1,
                       !.path = path, !.query = query,
                       !.analysis = query_analysis, !.session = session]

\* the strategy and the tasks of every analysis, evaluated once
FastStrategyOf ==
    [a \in RetrievalAnalyses \cup {LightweightAnalysis(b) : b \in RetrievalAnalyses} |->
        DetermineFastStrategy(a)] @@ <<>>

FastTasksOf ==
    [q \in RetrievalQueries |->
        [a \in DOMAIN FastStrategyOf |-> TasksOf(q, FastStrategyOf[a], a)]] @@ <<>>

\* RetrievalAgent.process on a cache miss, up to the await of the fan-out
SearchBegin(rec, query_analysis) ==
    search' = [rec EXCEPT !.pc = "gather",
                          !.strategy = FastStrategyOf[query_analysis],
                          !.tasks = FastTasksOf[rec.query][query_analysis]]

\* RetrievalAgent.process up to its first await: the cache test, then the
\* strategy and the tasks of the fan-out
SearchEnter(rec, query_analysis) ==
    IF SearchCacheHit(search.cache, SearchCacheKey(rec.query, query_analysis), now)
    THEN search' = [rec EXCEPT
            !.pc = "done", !.via = "cache",
            !.entry_of = CacheGet(search.cache,
                            SearchCacheKey(rec.query, query_analysis)).triple,
            !.result = CacheGet(search.cache,
                            SearchCacheKey(rec.query, query_analysis)).response]
    ELSE SearchBegin(rec, query_analysis)

\* the orchestrator calls the retrieval coordinator for a query of session
\* `session`: through _lightweight_retrieval for a pure emotional-support
\* analysis, directly otherwise
SearchStart(query, query_analysis, session) ==
    /\ search.pc \in {"idle", "done"}
    /\ search.calls < MaxRetrievals
    /\ IF RetrievalPath(query_analysis) = "lightweight"
       THEN SearchEnter(SearchStarted("lightweight", query, query_analysis, session),
                        LightweightAnalysis(query_analysis))
       ELSE SearchEnter(SearchStarted("full", query, query_analysis, session),
                        query_analysis)
    /\ UNCHANGED <<now, ticks, pipeline_vars, graph, verifier, evict, batch, journal>>

\* the fan-out ends, by its tasks or by the deadline of 10 s, and process
\* runs to its return: filtering, the response, the cache write
SearchGather(outs) ==
    /\ search.pc = "gather"
    /\ DOMAIN outs = 1..Len(search.tasks)
    /\ LET response == RetrievalResult(
                ExecuteFastRetrieval(search.tasks, outs, search.strategy),
                search.strategy)
       IN  search' = [search EXCEPT
                !.pc = "done", !.via = "gather", !.outcomes = outs,
                !.result = response,
                !.cache = SearchCacheWrite(search.cache,
                            SearchCacheKey(search.query, search.analysis),
                            now, response, search.session)]
    /\ UNCHANGED <<now, ticks, pipeline_vars, graph, verifier, evict, batch, journal>>

\* the deadline of 15 s around the fan-out expires: the emergency search
\* answers; nothing is cached
SearchOuterDeadline(out) ==
    /\ search.pc = "gather"
    /\ search' = [search EXCEPT
            !.pc = "done", !.via = "emergency",
            !.result = EmergencyResponse(out)]
    /\ UNCHANGED <<now, ticks, pipeline_vars, graph, verifier, evict, batch, journal>>

\* time passes between two retrievals
SearchTick(d) ==
    /\ search.pc = "done"
    /\ search.calls < MaxRetrievals
    /\ ticks < MaxTicks
    /\ now' = now + d
    /\ ticks' = ticks + 1
    /\ UNCHANGED <<pipeline_vars, component_vars>>

\* ---- RetrievalAgent.process with sources that return several items
\* bounds of the ranking component
MaxRankings == 1       \* RetrievalAgent.process calls in one behaviour
ItemCounts == {0, 1, 5, 9}     \* items one source returns
RerankScores == {270, 900}     \* scores of the cross-encoder, in thousandths

\* program constants of the ranking
RerankMinResults == 8            \* retrieval_agent.py:92
RerankInput == 10                \* retrieval_agent.py:93
RerankTop == 5                   \* retrieval_agent.py:414
GraphTopK == 4                   \* retrieval_agent.py:237

\* the score the source gives its j-th item (from 0), in hundredths:
\* _web_search_fast sets 0.8 - 0.1 * j, a graph relation has its relevance
\* (here 1.0), the vector store and the keyword index their similarity
ItemScore(method, j) ==
    IF method = "web" THEN 80 - (10 * j)
    ELSE IF method = "graph" THEN 100
    ELSE 90 - (5 * j)

\* the list task i returns when its source has n items; the graph search is
\* called with top_k=4
TaskItems(method, n, i) ==
    [j \in 1..(IF method = "graph" THEN Min(n, GraphTopK) ELSE n) |->
        [task |-> i, method |-> method, source |-> method \o "_search",
         score |-> ItemScore(method, j - 1)]]

\* the loop of _execute_fast_retrieval over the gathered lists
RECURSIVE AllItems(_, _, _)
AllItems(tasks, counts, i) ==
    IF i > Len(tasks) THEN <<>>
    ELSE TaskItems(tasks[i], counts[i], i) \o AllItems(tasks, counts, i + 1)

\* what the reranker can do: predict a score for each of the five pairs, or
\* raise or miss its deadline of 2 s
RerankOutcomes ==
    {[kind |-> "scores", scores |-> f] : f \in [1..RerankTop -> RerankScores]}
    \cup {[kind |-> "fails", scores |-> <<>>]}

\* _fast_rerank: the first five get the reranker's score as final_score and
\* are sorted among themselves; the rest follow as they were
FastRerank(results, out) ==
    IF results = <<>> \/ out.kind = "fails" THEN results
    ELSE SortByFinalScore(
            [i \in 1..Min(RerankTop, Len(results)) |->
                [results[i] EXCEPT !.final_score = out.scores[i]]])
         \o SubSeq(results, RerankTop + 1, Len(results))

\* reranking_applied of RetrievalAgent.process (the reranker was loaded)
RerankingApplied(results, strategy) ==
    Len(results) > RerankMinResults /\ ~strategy.skip_rerank

\* RetrievalAgent.process from the results of the fan-out to final_results
RankedResults(results, strategy, out) ==
    IF RerankingApplied(results, strategy)
    THEN FastRerank(Take(results, RerankInput), out) ELSE results

\* the fan-out ends with every source answering, and process runs to its
\* return: reranking, filtering, the response, the cache write
SearchGatherItems(counts, out) ==
    /\ search.pc = "gather"
    /\ DOMAIN counts = 1..Len(search.tasks)
    /\ search' = [search EXCEPT
            !.pc = "done", !.via = "gather",
            !.outcomes = [counts |-> counts, rerank |-> out,
                applied |-> RerankingApplied(
                    CombineResultsFast(AllItems(search.tasks, counts, 1),
                                       search.strategy.weights),
                    search.strategy)],
            !.result = RetrievalResult(
                RankedResults(
                    CombineResultsFast(AllItems(search.tasks, counts, 1),
                                       search.strategy.weights),
                    search.strategy, out),
                search.strategy),
            !.cache = SearchCacheWrite(search.cache,
                        SearchCacheKey(search.query, search.analysis), now,
                        RetrievalResult(
                            RankedResults(
                                CombineResultsFast(
                                    AllItems(search.tasks, counts, 1),
                                    search.strategy.weights),
                                search.strategy, out),
                            search.strategy),
                        search.session)]
    /\ UNCHANGED <<now, ticks, pipeline_vars, graph, verifier, evict, batch, journal>>

RankNext ==
    \/ \E q \in RetrievalQueries, a \in RetrievalAnalyses :
            search.calls < MaxRankings /\ SearchStart(q, a, "s1")
    \/ \E counts \in [1..Len(search.tasks) -> ItemCounts] :
            \E out \in RerankOutcomes : SearchGatherItems(counts, out)

RankSpec == Init /\ [][RankNext]_vars

RetrievalNext ==
    \/ \E q \in RetrievalQueries, a \in RetrievalAnalyses, s \in Sessions :
            SearchStart(q, a, s)
    \/ \E outs \in [1..Len(search.tasks) -> SourceOutcomes] :
            SearchGather(outs)
    \/ \E out \in SourceOutcomes : SearchOuterDeadline(out)
    \/ \E d \in {SearchCacheTTL - 1, SearchCacheTTL} : SearchTick(d)

RetrievalSpec == Init /\ [][RetrievalNext]_vars

\* ====================================== _clean_cache of the three caches
\* bounds of the eviction component
MaxStores == 2         \* cache writes after the cache was filled

\* program constants of GraphStore's search cache
GraphCacheTTL == 600             \* graph_store.py:24
GraphCacheCeiling == 100         \* graph_store.py:304
GraphEvictCount == 50            \* graph_store.py:306

EvictKinds == {"response", "retrieval", "graph"}

\* cache_ttl, the ceiling and the number of entries removed above it, of the
\* response cache, RetrievalAgent.search_cache and GraphStore.search_cache
EvictParams(kind) ==
    CASE kind = "response" ->
            [ttl |-> CacheTTL, ceiling |-> MaxCacheEntries, evict |-> EvictCount]
      [] kind = "retrieval" ->
            [ttl |-> SearchCacheTTL, ceiling |-> SearchCacheCeiling,
             evict |-> SearchEvictCount]
      [] kind = "graph" ->
            [ttl |-> GraphCacheTTL, ceiling |-> GraphCacheCeiling,
             evict |-> GraphEvictCount]

\* cache[key] = (time.time(), value), then _clean_cache(); keys are numbered
StoreAndClean(cache, key, t, p) ==
    CleanCache(CachePut(cache, CacheEntry(key, t, key, "")),
               t, p.ttl, p.ceiling, p.evict)

FillPatterns == {"ascending", "burst", "refreshed"}

\* a cache after n writes of n keys, none expired: the writes were one a
\* second ("ascending"), all in the same second ("burst"), or one a second
\* with the first key written again at the end ("refreshed": first in the
\* dict, newest in time).  Below the ceiling _clean_cache removes nothing.
Filled(n, pattern) ==
    [i \in 1..n |->
        CacheEntry(i, CASE pattern = "ascending" -> i
                        [] pattern = "burst" -> n
                        [] pattern = "refreshed" -> IF i = 1 THEN n ELSE i - 1,
                   i, "")]

Keys(cache) == {cache[i].key : i \in 1..Len(cache)}

\* a cache is filled up to one entry below its ceiling, by writes the
\* program makes
EvictFill(kind, pattern) ==
    /\ evict.kind = "none"
    /\ ticks = 0 /\ now = 0 /\ starts = 0 /\ search.calls = 0
    /\ evict' = [evict EXCEPT !.kind = kind, !.op = "fill",
                              !.cache = Filled(EvictParams(kind).ceiling - 1,
                                               pattern)]
    /\ now' = EvictParams(kind).ceiling
    /\ UNCHANGED <<ticks, pipeline_vars, search, graph, verifier, batch, journal>>

\* the record of a write that found `before` after the assignment and left
\* `after` when _clean_cache returned
EvictWritten(before, after) ==
    [evict EXCEPT !.op = "store", !.stores = @ + 1, !.at = now,
                  !.before = before, !.cache = after,
                  !.gone = (@ \ Keys(after)) \cup (Keys(before) \ Keys(after))]

\* one more write: the entry is stored and _clean_cache runs
EvictStore(key) ==
    /\ evict.kind # "none"
    /\ evict.stores < MaxStores
    /\ evict' = EvictWritten(
            CachePut(evict.cache, CacheEntry(key, now, key, "")),
            StoreAndClean(evict.cache, key, now, EvictParams(evict.kind)))
    /\ UNCHANGED <<now, ticks, pipeline_vars, search, graph, verifier, batch, journal>>

\* the cache test of a later call: cached_time, value = cache[key] and
\* time.time() - cached_time < cache_ttl
EvictLookup(key) ==
    /\ evict.op = "store"
    /\ evict' = [evict EXCEPT
            !.op = "lookup", !.looked = key,
            !.hit = /\ CacheHas(evict.cache, key)
                    /\ now - CacheGet(evict.cache, key).time
                            < EvictParams(evict.kind).ttl]
    /\ UNCHANGED <<now, ticks, pipeline_vars, search, graph, verifier, batch, journal>>

\* time passes between two writes
EvictTick(d) ==
    /\ evict.kind # "none"
    /\ ticks < MaxTicks
    /\ now' = now + d
    /\ ticks' = ticks + 1
    /\ UNCHANGED <<pipeline_vars, component_vars>>

\* the keys written and looked up: the oldest key, keys around the middle of
\* a full cache, and keys the cache has not seen
StoreKeys(p) == {1, p.ceiling + 1, p.ceiling + 2}
LookupKeys(p) == {1, 2, p.evict, p.evict + 1, p.ceiling + 1}
TickSteps(p) == {1, p.ttl - p.evict, p.ttl + 1}

EvictNext ==
    \/ \E kind \in EvictKinds, pattern \in FillPatterns :
            EvictFill(kind, pattern)
    \/ /\ evict.kind # "none"
       /\ \E key \in StoreKeys(EvictParams(evict.kind)) : EvictStore(key)
    \/ /\ evict.kind # "none"
       /\ \E key \in LookupKeys(EvictParams(evict.kind)) : EvictLookup(key)
    \/ /\ evict.kind # "none"
       /\ \E d \in TickSteps(EvictParams(evict.kind)) : EvictTick(d)

EvictSpec == Init /\ [][EvictNext]_vars

\* ============================== retrieval/graph_store.py: GraphStore
\* bounds of the graph component
MaxTriples == 3        \* add_triple calls in one behaviour
MaxSearches == 2       \* search_entity calls in one behaviour

\* program constants of the graph component
MaxTopNodes == 3                 \* graph_store.py:125
NeighborCeiling == 200           \* graph_store.py:310
NeighborEvictCount == 100        \* graph_store.py:312
MinSubstringMatches == 5         \* graph_store.py:202
RelevanceUnit == 4800            \* graph_store.py:266 (1.0, in 1/4800)

GraphNodes == {"anxiety", "fear", "anxiety disorder"}
GraphPredicates == {"treats"}
GraphTerms == {"anx", "anxiety", "Fear"}
GraphHops == {1, 2}
GraphLimits == {2}

\* four names that hold the word `anxiety`, one of them the word itself
MatchNodes == {"anxiety", "anxiety disorder", "social anxiety", "anxiety attack"}
MatchTerms == {"anxiety", "anx"}
MatchTriples ==
    {<<"anxiety", "anxiety disorder">>, <<"social anxiety", "anxiety attack">>,
     <<"anxiety attack", "anxiety">>}

\* str(n) for the numbers of the cache keys
RECURSIVE IntToStr(_)
IntToStr(n) ==
    IF n < 10 THEN CharAt(Digits, n + 1)
    ELSE IntToStr(n \div 10) \o CharAt(Digits, (n % 10) + 1)

\* set(s.split())
SplitWords(s) ==
    LET firsts == {i \in 1..Len(s) :
                    /\ ~IsSpace(CharAt(s, i))
                    /\ i = 1 \/ IsSpace(CharAt(s, i - 1))}
        last(i) == CHOOSE j \in i..Len(s) :
                    /\ j = Len(s) \/ IsSpace(CharAt(s, j + 1))
                    /\ \A k \in i..j : ~IsSpace(CharAt(s, k))
    IN  {SubSeq(s, i, last(i)) : i \in firsts}

\* lower(), words and substring tests on the names and terms of the model,
\* evaluated once
GraphStrings == GraphNodes \cup GraphTerms \cup MatchNodes
GraphLowerOf == [t \in GraphStrings |-> Lower(t)] @@ <<>>
GraphWordsOf == [t \in GraphStrings |-> SplitWords(GraphLowerOf[t])] @@ <<>>
GraphContains ==
    [a \in GraphStrings |->
        [b \in GraphStrings |-> Contains(GraphLowerOf[a], GraphLowerOf[b])]] @@ <<>>

\* _calculate_edge_weight, in tenths
CalculateEdgeWeight(predicate) ==
    CASE Lower(predicate) \in {"treats", "therapy_for"} -> 9
      [] Lower(predicate) \in {"causes", "symptom_of", "medication_for"} -> 8
      [] Lower(predicate) = "helps_with" -> 7
      [] Lower(predicate) = "is_type_of" -> 6
      [] OTHER -> 5

EdgeWeightOf == [p \in GraphPredicates |-> CalculateEdgeWeight(p)] @@ <<>>

\* graph.add_node for a name the graph may hold already
AddNode(nodes, n) == IF InSeq(n, nodes) THEN nodes ELSE Append(nodes, n)

\* graph.add_edge: a new edge goes last, an edge that exists gets the weight
AddEdge(edges, s, o, w) ==
    IF \E i \in 1..Len(edges) : edges[i].s = s /\ edges[i].o = o
    THEN [i \in 1..Len(edges) |->
            IF edges[i].s = s /\ edges[i].o = o
            THEN [s |-> s, o |-> o, weight |-> w] ELSE edges[i]]
    ELSE Append(edges, [s |-> s, o |-> o, weight |-> w])

\* the search-cache part of _invalidate_cache_for_entity: the keys that
\* contain the lower-cased name go
InvalidateSearch(cache, entity) ==
    SelectIdx(cache, {i \in 1..Len(cache) :
                        ~Contains(Lower(cache[i].key), GraphLowerOf[entity])}, 1)

\* the neighbor-cache part: the key equal to the lower-cased name goes
InvalidateNeighbors(ncache, entity) ==
    SelectIdx(ncache, {i \in 1..Len(ncache) :
                        ncache[i].key # GraphLowerOf[entity]}, 1)

\* the successors of n in adjacency order, from edge i on
RECURSIVE Successors(_, _, _)
Successors(edges, n, i) ==
    IF i > Len(edges) THEN <<>>
    ELSE (IF edges[i].s = n THEN <<edges[i].o>> ELSE <<>>)
         \o Successors(edges, n, i + 1)

\* the successors of the nodes of a BFS level, in the order BFS meets them
RECURSIVE LevelSuccessors(_, _)
LevelSuccessors(edges, level) ==
    IF level = <<>> THEN <<>>
    ELSE Successors(edges, Head(level), 1)
         \o LevelSuccessors(edges, Tail(level))

\* the candidates BFS has not seen, each once
RECURSIVE Discover(_, _)
Discover(candidates, seen) ==
    IF candidates = <<>> THEN <<>>
    ELSE IF Head(candidates) \in seen THEN Discover(Tail(candidates), seen)
    ELSE <<Head(candidates)>>
         \o Discover(Tail(candidates), seen \cup {Head(candidates)})

SeqSet(seq) == {seq[i] : i \in 1..Len(seq)}

\* nx.single_source_shortest_path_length beyond a level: the nodes at
\* distance d, d + 1, ... up to the cutoff
RECURSIVE PathLengths(_, _, _, _, _)
PathLengths(edges, level, seen, d, cutoff) ==
    IF d > cutoff \/ level = <<>> THEN <<>>
    ELSE LET next == Discover(LevelSuccessors(edges, level), seen)
         IN  [i \in 1..Len(next) |-> [node |-> next[i], distance |-> d]]
             \o PathLengths(edges, next, seen \cup SeqSet(next), d + 1, cutoff)

\* BFS distances that ignore the cutoff
ComputeNeighborsNoCutoff(edges, node, hop_distance) ==
    <<[node |-> node, distance |-> 0]>>
    \o PathLengths(edges, <<node>>, {node}, 1, Len(edges))

\* _get_neighbors_cached on a miss: the direct neighbors at distance 1, or
\* the BFS distances up to hop_distance (the node itself at 0)
ComputeNeighbors(edges, node, hop_distance) ==
    IF hop_distance = 1
    THEN [i \in 1..Len(Successors(edges, node, 1)) |->
            [node |-> Successors(edges, node, 1)[i], distance |-> 1]]
    ELSE <<[node |-> node, distance |-> 0]>>
         \o PathLengths(edges, <<node>>, {node}, 1, hop_distance)

NeighborKey(node, hop_distance) == node \o ":" \o IntToStr(hop_distance)

NeighborCached(ncache, key) == \E i \in 1..Len(ncache) : ncache[i].key = key

\* _get_neighbors_cached: the dict returned
GetNeighborsCached(ncache, edges, node, hop_distance) ==
    IF NeighborCached(ncache, NeighborKey(node, hop_distance))
    THEN ncache[CHOOSE i \in 1..Len(ncache) :
                    ncache[i].key = NeighborKey(node, hop_distance)].neighbors
    ELSE ComputeNeighbors(edges, node, hop_distance)

\* _get_neighbors_cached: the neighbor cache it leaves.  `stored` is
\* auxiliary: the clock when the entry was written (the dict keeps no time).
NeighborCacheAfter(ncache, edges, node, hop_distance) ==
    IF NeighborCached(ncache, NeighborKey(node, hop_distance)) THEN ncache
    ELSE Append(ncache, [key |-> NeighborKey(node, hop_distance),
                         node |-> node, hop |-> hop_distance,
                         neighbors |-> ComputeNeighbors(edges, node, hop_distance),
                         stored |-> now])

\* auxiliary: when the expansion _get_neighbors_cached returns was computed
ExpansionTime(ncache, node, hop_distance) ==
    IF NeighborCached(ncache, NeighborKey(node, hop_distance))
    THEN ncache[CHOOSE i \in 1..Len(ncache) :
                    ncache[i].key = NeighborKey(node, hop_distance)].stored
    ELSE now

\* b is reached from a by k edges or fewer
RECURSIVE Reach(_, _, _, _)
Reach(edges, a, b, k) ==
    \/ a = b
    \/ k > 0 /\ \E i \in 1..Len(edges) :
                    edges[i].s = a /\ Reach(edges, edges[i].o, b, k - 1)

\* the number of edges of a shortest path from a to b (b is reachable)
Distance(edges, a, b) ==
    CHOOSE k \in 0..Len(edges) :
        /\ Reach(edges, a, b, k)
        /\ k = 0 \/ ~Reach(edges, a, b, k - 1)

\* nx.shortest_path(graph, a, b) for a reachable b; among the shortest paths
\* the model takes the first by adjacency order (three nodes leave one)
RECURSIVE ShortestPath(_, _, _)
ShortestPath(edges, a, b) ==
    IF a = b THEN <<a>>
    ELSE LET k == Distance(edges, a, b)
             i == CHOOSE i \in 1..Len(edges) :
                    /\ edges[i].s = a
                    /\ Reach(edges, edges[i].o, b, k - 1)
                    /\ \A j \in 1..(i - 1) :
                        ~(edges[j].s = a /\ Reach(edges, edges[j].o, b, k - 1))
         IN  <<a>> \o ShortestPath(edges, edges[i].o, b)

EdgeWeight(edges, s, o) ==
    edges[CHOOSE i \in 1..Len(edges) : edges[i].s = s /\ edges[i].o = o].weight

\* the sum of the edge weights along a path, in tenths
RECURSIVE PathWeight(_, _)
PathWeight(edges, path) ==
    IF Len(path) < 2 THEN 0
    ELSE EdgeWeight(edges, path[1], path[2]) + PathWeight(edges, Tail(path))

\* _calculate_relevance, in 1/4800: 1 / (distance + 1), times 1.5 when the
\* term is in one of the two names, times 0.5 + the mean edge weight, at
\* most 1.0
CalculateRelevance(edges, term, node, neighbor, distance, path) ==
    Min(RelevanceUnit,
        (120 \div (distance + 1))
        * (IF GraphContains[node][term] \/ GraphContains[neighbor][term]
           THEN 3 ELSE 2)
        * (((5 * (Len(path) - 1)) + PathWeight(edges, path))
           * (2 \div (Len(path) - 1))))

\* one relation of the result list
Relation(edges, q, node, nb, path) ==
    [entity |-> node, related_entity |-> nb.node, distance |-> nb.distance,
     path_length |-> Len(path), hop_distance |-> q.hop,
     relevance |-> CalculateRelevance(edges, q.term, node, nb.node,
                                      nb.distance, path)]

\* processed_pairs keyed by the pair as met, first endpoint first
PairKeyOrdered(a, b) == <<a, b>>

\* the unordered pair of processed_pairs
PairKey(a, b) == {a, b}

\* the inner loop of search_entity over the neighbors of one node, from
\* neighbor i on; acc holds results and processed_pairs
RECURSIVE ScanNeighbors(_, _, _, _, _, _)
ScanNeighbors(edges, q, node, nbs, i, acc) ==
    IF i > Len(nbs) THEN acc
    ELSE IF nbs[i].node = node \/ PairKey(node, nbs[i].node) \in acc.processed
    THEN ScanNeighbors(edges, q, node, nbs, i + 1, acc)
    ELSE LET path == ShortestPath(edges, node, nbs[i].node)
             results == IF Len(path) <= q.hop + 1
                        THEN Append(acc.results,
                                    Relation(edges, q, node, nbs[i], path))
                        ELSE acc.results
             next == [results |-> results,
                      processed |-> acc.processed
                                    \cup {PairKey(node, nbs[i].node)}]
         IN  IF Len(results) >= q.limit * 2 THEN next
             ELSE ScanNeighbors(edges, q, node, nbs, i + 1, next)

\* the outer loop of search_entity over top_nodes, from node i on; acc holds
\* results, processed_pairs, the neighbor cache and the expansions used
RECURSIVE ScanNodes(_, _, _, _, _)
ScanNodes(edges, q, top, i, acc) ==
    IF i > Len(top) THEN acc
    ELSE LET nbs == GetNeighborsCached(acc.ncache, edges, top[i], q.hop)
             scanned == ScanNeighbors(edges, q, top[i], nbs, 1,
                            [results |-> acc.results,
                             processed |-> acc.processed])
         IN  ScanNodes(edges, q, top, i + 1,
                [results |-> scanned.results,
                 processed |-> scanned.processed,
                 ncache |-> NeighborCacheAfter(acc.ncache, edges, top[i], q.hop),
                 used |-> Append(acc.used,
                            [node |-> top[i], neighbors |-> nbs,
                             cached |-> NeighborCached(acc.ncache,
                                            NeighborKey(top[i], q.hop)),
                             stored |-> ExpansionTime(acc.ncache, top[i],
                                                      q.hop)])])

\* results.sort(key=relevance, reverse=True), which is stable
SortByRelevance(results) ==
    LET Before(i, j) == \/ results[i].relevance > results[j].relevance
                        \/ /\ results[i].relevance = results[j].relevance
                           /\ i < j
        Rank(i) == Cardinality({j \in 1..Len(results) : Before(j, i)}) + 1
    IN  [k \in 1..Len(results) |->
            results[CHOOSE i \in 1..Len(results) : Rank(i) = k]]

\* the keys of entity_index: the lower-cased names, in insertion order
RECURSIVE IndexKeys(_, _)
IndexKeys(nodes, seen) ==
    IF nodes = <<>> THEN <<>>
    ELSE IF GraphLowerOf[Head(nodes)] \in seen THEN IndexKeys(Tail(nodes), seen)
    ELSE <<GraphLowerOf[Head(nodes)]>>
         \o IndexKeys(Tail(nodes), seen \cup {GraphLowerOf[Head(nodes)]})

\* entity_index[key]
EntityIndex(nodes, key) == {n \in SeqSet(nodes) : GraphLowerOf[n] = key}

\* entity_text_index[word]
TextIndex(nodes, word) ==
    {GraphLowerOf[n] : n \in {m \in SeqSet(nodes) :
        word \in GraphWordsOf[m] /\ Len(word) > 2}}

\* the exact and word matches of _find_matching_nodes_optimized
ExactAndWordMatches(nodes, entity) ==
    EntityIndex(nodes, GraphLowerOf[entity])
    \cup UNION {EntityIndex(nodes, match) :
            match \in UNION {TextIndex(nodes, word) :
                word \in {w \in GraphWordsOf[entity] : Len(w) > 2}}}

\* the substring matches: keys that contain the term or are contained in it
\* (the scan stops early only beyond ten matches)
SubstringMatches(nodes, entity) ==
    UNION {EntityIndex(nodes, key) :
        key \in {k \in SeqSet(Take(IndexKeys(nodes, {}), 100)) :
            \/ Contains(k, GraphLowerOf[entity])
            \/ Contains(GraphLowerOf[entity], k)}}

\* _find_matching_nodes_optimized
FindMatchingNodesOptimized(nodes, entity) ==
    IF Cardinality(ExactAndWordMatches(nodes, entity)) < MinSubstringMatches
    THEN ExactAndWordMatches(nodes, entity) \cup SubstringMatches(nodes, entity)
    ELSE ExactAndWordMatches(nodes, entity)

\* list(matching_nodes)[:3]: a set has no order the program fixes, so any
\* three of the nodes in any order
TopNodes(matching) ==
    {top \in UNION {[1..k -> matching] : k \in 0..MaxTopNodes} :
        /\ Len(top) = Min(MaxTopNodes, Cardinality(matching))
        /\ \A i, j \in 1..Len(top) : i # j => top[i] # top[j]}

SearchKey(entity, hop_distance, limit) ==
    Lower(entity) \o ":" \o IntToStr(hop_distance) \o ":" \o IntToStr(limit)

GraphSearchKey ==
    [t \in GraphTerms |-> [h \in GraphHops |-> [l \in GraphLimits |->
        SearchKey(t, h, l)]]] @@ <<>>

\* the neighbor-cache part of _clean_cache
CleanNeighborCache(ncache) ==
    IF Len(ncache) > NeighborCeiling
    THEN SubSeq(ncache, NeighborEvictCount + 1, Len(ncache))
    ELSE ncache

\* add_triple
GraphAdd(s, p, o) ==
    /\ graph.adds < MaxTriples
    /\ graph' = [graph EXCEPT
            !.adds = @ + 1, !.op = "add", !.s = s, !.o = o,
            !.nodes = AddNode(AddNode(@, s), o),
            !.edges = AddEdge(@, s, o, EdgeWeightOf[p]),
            !.search_cache = InvalidateSearch(InvalidateSearch(@, s), o),
            !.neighbor_cache =
                InvalidateNeighbors(InvalidateNeighbors(@, s), o)]
    /\ UNCHANGED <<now, ticks, pipeline_vars, search, verifier, evict, batch, journal>>

\* the record a search leaves; `matched` is auxiliary: the nodes the term
\* resolved to; `at` is the clock of the call
SearchDone(q, via, matched, top, used, results, scache, ncache) ==
    [graph EXCEPT
        !.searches = @ + 1, !.op = "search", !.at = now,
        !.term = q.term, !.hop = q.hop,
        !.limit = q.limit, !.via = via, !.matched = matched, !.top = top,
        !.used = used, !.results = results,
        !.search_cache = scache, !.neighbor_cache = ncache]

\* search_entity on a cache miss with matching nodes
SearchComputed(q, key, matching, top, scan) ==
    SearchDone(q, "computed", matching, top, scan.used,
        Take(SortByRelevance(scan.results), q.limit),
        CleanCache(CachePut(graph.search_cache,
                CacheEntry(key, now,
                           Take(SortByRelevance(scan.results), q.limit),
                           matching)),
            now, GraphCacheTTL, GraphCacheCeiling, GraphEvictCount),
        CleanNeighborCache(scan.ncache))

\* search_entity
GraphSearch(term, hop_distance, limit) ==
    /\ graph.searches < MaxSearches
    /\ LET q == [term |-> term, hop |-> hop_distance, limit |-> limit]
           key == GraphSearchKey[term][hop_distance][limit]
           matching == FindMatchingNodesOptimized(graph.nodes, term)
       IN  IF /\ CacheHas(graph.search_cache, key)
              /\ now - CacheGet(graph.search_cache, key).time < GraphCacheTTL
           THEN graph' = SearchDone(q, "cache",
                            CacheGet(graph.search_cache, key).triple, <<>>, <<>>,
                            CacheGet(graph.search_cache, key).response,
                            graph.search_cache, graph.neighbor_cache)
           ELSE IF matching = {}
           THEN graph' = SearchDone(q, "none", {}, <<>>, <<>>, <<>>,
                            graph.search_cache, graph.neighbor_cache)
           ELSE \E top \in TopNodes(matching) :
                    graph' = SearchComputed(q, key, matching, top,
                        ScanNodes(graph.edges, q, top, 1,
                            [results |-> <<>>, processed |-> {},
                             ncache |-> graph.neighbor_cache, used |-> <<>>]))
    /\ UNCHANGED <<now, ticks, pipeline_vars, search, verifier, evict, batch, journal>>

\* time passes between two calls
GraphTick(d) ==
    /\ graph.searches > 0
    /\ graph.searches < MaxSearches
    /\ ticks < MaxTicks
    /\ now' = now + d
    /\ ticks' = ticks + 1
    /\ UNCHANGED <<pipeline_vars, component_vars>>

GraphNext ==
    \/ \E s \in GraphNodes, p \in GraphPredicates :
            \E o \in GraphNodes \ {s} : GraphAdd(s, p, o)
    \/ \E term \in GraphTerms, hop \in GraphHops, limit \in GraphLimits :
            GraphSearch(term, hop, limit)
    \/ \E d \in {GraphCacheTTL - 1, GraphCacheTTL, GraphCacheTTL + 1} :
            GraphTick(d)

GraphSpec == Init /\ [][GraphNext]_vars

\* the graph store with more nodes that match a term than search_entity
\* expands
MatchNext ==
    \/ \E t \in MatchTriples, p \in GraphPredicates : GraphAdd(t[1], p, t[2])
    \/ \E term \in MatchTerms, limit \in GraphLimits :
            GraphSearch(term, 1, limit)

MatchSpec == Init /\ [][MatchNext]_vars

\* ============================== agents/verifier_agent.py: VerifierAgent
\* bounds of the verifier component
MaxVerifications == 2  \* VerifierAgent.process calls in one behaviour

\* program constants of the verifier component
MinTextLength == 50              \* verifier_agent.py:59
MaxConfidence == 950000          \* verifier_agent.py:308 (0.95, in millionths)
RejectBelow == 400000            \* verifier_agent.py:81 (0.4)
CautionBelow == 700000           \* verifier_agent.py:83 (0.7)
IncludeAbove == 300000           \* orchestrator.py:288 (0.3)
VerificationCacheCeiling == 1000 \* verifier_agent.py:106
VerificationEvictCount == 500    \* verifier_agent.py:109
EnableFactChecking == TRUE       \* settings.py:94

\* quality_indicators
QualityIndicators ==
    [scientific |-> {"research", "study", "clinical", "evidence", "trial",
                     "meta-analysis"},
     authoritative |-> {"psychologist", "psychiatrist", "therapist",
                        "counselor", "professional"},
     actionable |-> {"technique", "strategy", "approach", "method",
                     "exercise", "practice"},
     empathetic |-> {"understand", "feel", "experience", "support", "help",
                     "cope"}]

\* red_flags
RedFlags ==
    {"cure", "guaranteed", "miracle", "instant", "completely eliminate",
     "never", "always", "100%", "medical advice"}

\* common_words of _quick_relevance_check
CommonWords ==
    {"the", "a", "an", "and", "or", "but", "in", "on", "at", "to", "for",
     "is", "are", "was", "were"}

\* the texts verified
VerifierTexts ==
    {"Anxiety is common.",
     "The weather was mild and the garden looked green after the rain",
     "This miracle cure will instantly stop every worry you have today!",
     "Many people manage anxiety with a breathing exercise. It can help you feel calmer. A therapist may guide you further.",
     "Research shows that people can manage anxiety with a daily breathing exercise. A therapist can help you understand what you feel. Clinical evidence supports this approach, and regular practice brings relief."}

VerifierQueries == {"manage anxiety", "is the"}

\* texts at the minimum length: the empty text, one of 49 characters, and the
\* same followed by a colon (50 characters)
ShortTexts ==
    {"", "Slow breathing can help when you feel anxious now",
     "Slow breathing can help when you feel anxious now:"}

ShortTextQueries == {"manage anxiety", ":manage anxiety"}

AllVerifierTexts == VerifierTexts \cup ShortTexts
AllVerifierQueries == VerifierQueries \cup ShortTextQueries

\* len(re.split(r'[.!?]+', text)): one more than the runs of terminators
SentencePieces(text) ==
    1 + Cardinality({i \in 1..Len(text) :
            /\ CharAt(text, i) \in {".", "!", "?"}
            /\ i = 1 \/ CharAt(text, i - 1) \notin {".", "!", "?"}})

\* what the verifier reads of a text: its lower-cased form, its words, the
\* number of quality_indicators categories it touches, evaluated once
TextFacts(text, lower) ==
    [lower |-> lower,
     words |-> SplitWords(lower) \ CommonWords,
     categories |-> Cardinality({c \in DOMAIN QualityIndicators :
                        AnyIn(QualityIndicators[c], lower)}),
     empathy |-> AnyIn(QualityIndicators.empathetic, lower),
     red_flags |-> AnyIn(RedFlags, lower),
     pieces |-> SentencePieces(text)]

FactsOf ==
    [t \in AllVerifierTexts \cup AllVerifierQueries |->
        TextFacts(t, Lower(t))] @@ <<>>

\* _assess_content_quality, in thousandths
AssessContentQuality(text) ==
    LET score == 500
                 + (IF 200 <= Len(text) /\ Len(text) <= 2000 THEN 100
                    ELSE IF Len(text) < 100 THEN -200 ELSE 0)
                 + FactsOf[text].categories * 100
                 + (IF 3 <= FactsOf[text].pieces /\ FactsOf[text].pieces <= 20
                    THEN 100 ELSE 0)
    IN  IF score > 1000 THEN 1000 ELSE IF score < 100 THEN 100 ELSE score

\* the number of keywords found in the text
KeywordMatches(text, keywords) ==
    Cardinality({i \in 1..Len(keywords) :
                    Contains(FactsOf[text].lower, Lower(keywords[i]))})

\* _quick_relevance_check, in thousandths (exact for the queries and keyword
\* lists of the model)
QuickRelevanceCheck(text, query, keywords) ==
    LET query_words == FactsOf[query].words
        overlap == (1000 * Cardinality(query_words \cap FactsOf[text].words))
                   \div Cardinality(query_words)
        keyword_score == Min(1000, (1000 * KeywordMatches(text, keywords))
                                   \div Len(keywords))
        relevance == IF keywords # <<>>
                     THEN (4 * overlap + 6 * keyword_score) \div 10
                     ELSE overlap
        boosted == IF \E w \in SplitWords(FactsOf[query].lower) :
                        Len(w) > 4 /\ Contains(FactsOf[text].lower, w)
                   THEN Min(1000, (relevance * 12) \div 10)
                   ELSE relevance
    IN  IF query_words = {} THEN 500 ELSE Min(1000, boosted)

\* _assess_web_trust, in thousandths
AssessWebTrust(url) ==
    IF AnyIn({".gov", ".edu", ".org", "nih.gov", "mayo", "cleveland",
              "hopkinsmedicine", "webmd", "psychologytoday", "apa.org",
              "healthline", "medicalnewstoday", "verywellmind"}, Lower(url))
    THEN 900
    ELSE IF AnyIn({"health", "medical", "clinic", "hospital", "university"},
                  Lower(url))
    THEN 700
    ELSE 500

\* the items verified: text, source, score (thousandths) and metadata url
VerifierSources ==
    {[source |-> "vector_search", url |-> ""],
     [source |-> "web_search", url |-> "https://www.nih.gov/anxiety"],
     [source |-> "web_search", url |-> "https://example.com/post"]}

WebTrustOf == [u \in {s.url : s \in VerifierSources} |-> AssessWebTrust(u)] @@ <<>>

VerifierScores == {900}

\* what the relevance model answers to _llm_verify_minimal: a number, kept
\* within [0, 1], or nothing (timeout, exception, no number)
LLMChecks == {[answered |-> FALSE, relevance |-> 0],
              [answered |-> TRUE, relevance |-> 0],
              [answered |-> TRUE, relevance |-> 1000]}

\* _fast_verify: quality after the red-flag and empathy penalties
PenalizedQuality(text, query_analysis) ==
    LET flagged == IF FactsOf[text].red_flags
                   THEN AssessContentQuality(text) \div 2
                   ELSE AssessContentQuality(text)
    IN  IF query_analysis.intent = "emotional_support" /\ ~FactsOf[text].empathy
        THEN (flagged * 7) \div 10 ELSE flagged

\* _fast_verify
FastVerify(text, url, query_analysis, original_query, source, llm) ==
    LET quality == PenalizedQuality(text, query_analysis)
        relevance == QuickRelevanceCheck(text, original_query,
                                         query_analysis.keywords)
        needs_llm_check == \/ quality < 500
                           \/ relevance < 500
                           \/ query_analysis.complexity = "complex"
    IN  [quality |-> quality,
         relevance |-> IF needs_llm_check /\ EnableFactChecking /\ llm.answered
                       THEN (relevance + llm.relevance) \div 2
                       ELSE relevance,
         trust |-> IF source = "web_search" THEN WebTrustOf[url] ELSE 900,
         has_red_flags |-> FactsOf[text].red_flags,
         asked_llm |-> needs_llm_check /\ EnableFactChecking]

\* _calculate_confidence, in millionths
CalculateConfidence(verification_result, source, score) ==
    LET weighted ==
            IF source = "web_search"
            THEN 30 * verification_result.quality
                 + 30 * verification_result.relevance
                 + 30 * verification_result.trust + 10 * score
            ELSE 35 * verification_result.quality
                 + 35 * verification_result.relevance
                 + 15 * verification_result.trust + 15 * score
    IN  Min(MaxConfidence,
            IF verification_result.has_red_flags THEN 7 * weighted
            ELSE 10 * weighted)

\* the recommendation of VerifierAgent.process
Recommend(confidence) ==
    IF confidence < RejectBelow THEN "reject"
    ELSE IF confidence < CautionBelow THEN "use_with_caution"
    ELSE "accept"

\* the information mapping given to the verifier: text, source, score and
\* the url of its metadata
Information(text, src, score) ==
    [text |-> text, source |-> src.source, url |-> src.url, score |-> score,
     none |-> FALSE]

\* the data mapping of a verification response; has_final tells whether the
\* keys final_confidence, relevance_score and quality_score are present,
\* `item` holds the keys copied from the information mapping
VerifiedData(method, has_final, final_confidence, recommendation, confidence) ==
    [verification_method |-> method, has_final |-> has_final,
     final_confidence |-> final_confidence,
     recommendation |-> recommendation, confidence |-> confidence,
     verification_time |-> FALSE,
     item |-> NoItem, relevance_score |-> 0, quality_score |-> 0]

\* _create_rejection
CreateRejection ==
    AgentResponse(TRUE,
        VerifiedData("content_rejected", FALSE, 0, "reject", 0),
        [rejection_reason |-> "Content too short or empty"], "", 0)

\* the response VerifierAgent.process builds for a text long enough
VerifiedResponse(verification_result, confidence) ==
    AgentResponse(TRUE,
        VerifiedData("fast_rule_based", TRUE, confidence,
                     Recommend(confidence), confidence),
        [verification_details |-> verification_result], "", confidence)

\* enhanced_info of VerifierAgent.process: {**information, ...} with the
\* relevance and the quality of the verification result
EnhancedResponse(response, information, verification_result) ==
    [response EXCEPT !.data =
        [@ EXCEPT !.item = information,
                  !.relevance_score = verification_result.relevance,
                  !.quality_score = verification_result.quality]]

\* cache_key of VerifierAgent.process
VerificationKey(text, original_query) ==
    Take(text, 100) \o ":" \o Take(original_query, 50)

VerificationKeyOf ==
    [t \in AllVerifierTexts |-> [q \in AllVerifierQueries |->
        VerificationKey(t, q)]] @@ <<>>

\* self.verification_cache[cache_key] = response, then the size limit.  The
\* auxiliary slot of the entry keeps the response as it was when stored.
VerificationCacheWrite(cache, key, response) ==
    LET stored == CachePut(cache, CacheEntry(key, 0, response, response))
    IN  IF Len(stored) > VerificationCacheCeiling
        THEN SubSeq(stored, VerificationEvictCount + 1, Len(stored))
        ELSE stored

\* the record a call of process leaves: the response returned, how it was
\* made, and the key of the cache entry that is the same object ("" when the
\* response is in no entry)
Verified(via, key, response, cache, text, original_query) ==
    [verifier EXCEPT !.pc = "returned", !.calls = @ + 1, !.via = via,
                     !.ref = key, !.result = response, !.cache = cache,
                     !.text = text, !.query = original_query,
                     !.asked = /\ via = "computed"
                               /\ response.metadata.verification_details.asked_llm]

\* the response VerifierAgent.process builds from the verification result
ComputedResponse(verification_result, information) ==
    EnhancedResponse(
        VerifiedResponse(verification_result,
            CalculateConfidence(verification_result, information.source,
                                information.score)),
        information, verification_result)

\* VerifierAgent.process from the cache test on; `response` is what the
\* verification computes when it is reached
VerifyReturn(key, response, information, original_query) ==
    IF CacheHas(verifier.cache, key)
    THEN Verified("cache", key, CacheGet(verifier.cache, key).response,
                  verifier.cache, information.text, original_query)
    ELSE IF Len(information.text) < MinTextLength
    THEN Verified("rejected", "", CreateRejection, verifier.cache,
                  information.text, original_query)
    ELSE Verified("computed", key, response,
                  VerificationCacheWrite(verifier.cache, key, response),
                  information.text, original_query)

\* VerifierAgent.process
VerifyProcess(text, src, score, query_analysis, original_query, llm) ==
    /\ verifier.pc \in {"idle", "returned", "filtered"}
    /\ verifier.calls < MaxVerifications
    /\ verifier' =
            [VerifyReturn(VerificationKeyOf[text][original_query],
                ComputedResponse(
                    FastVerify(text, src.url, query_analysis, original_query,
                               src.source, llm),
                    Information(text, src, score)),
                Information(text, src, score), original_query)
             EXCEPT !.item = Information(text, src, score)]
    /\ UNCHANGED <<now, ticks, pipeline_vars, search, graph, evict, batch, journal>>

\* the filter loop of _batch_verify on the mapping of a response: the time
\* is added, and a rejected item of confidence above 0.3 is relabelled
FilteredData(data) ==
    [data EXCEPT
        !.verification_time = TRUE,
        !.recommendation =
            IF @ = "reject" /\ data.has_final
               /\ data.final_confidence > IncludeAbove
            THEN "use_with_caution" ELSE @]

\* the cache after the mapping of the response under `key` was changed in
\* place: the entry holds the same object
CacheAliased(cache, key, response) ==
    [i \in 1..Len(cache) |->
        IF cache[i].key = key THEN [cache[i] EXCEPT !.response = response]
        ELSE cache[i]]

\* OrchestratorAgent._batch_verify: the filter loop takes result.data of the
\* response the verifier returned and writes into it
BatchFilter ==
    /\ verifier.pc = "returned"
    /\ LET response == [verifier.result EXCEPT !.data = FilteredData(@)]
       IN  verifier' = [verifier EXCEPT
                !.pc = "filtered", !.result = response,
                !.cache = CacheAliased(@, verifier.ref, response)]
    /\ UNCHANGED <<now, ticks, pipeline_vars, search, graph, evict, batch, journal>>

\* the query analyses of the calls: intent, complexity and the keywords
\* QueryAgent extracted
VerifierAnalyses ==
    {[intent |-> "emotional_support", complexity |-> "simple",
      keywords |-> <<>>],
     [intent |-> "factual", complexity |-> "simple",
      keywords |-> <<"anxious", "breathing">>],
     [intent |-> "factual", complexity |-> "complex", keywords |-> <<>>]}

VerifierNext ==
    \/ \E text \in VerifierTexts, src \in VerifierSources,
          score \in VerifierScores, a \in VerifierAnalyses,
          q \in VerifierQueries, llm \in LLMChecks :
            VerifyProcess(text, src, score, a, q, llm)
    \/ BatchFilter

VerifierSpec == Init /\ [][VerifierNext]_vars

\* the verifier on texts around the minimum length
ShortTextNext ==
    \/ \E text \in ShortTexts \cup {"Anxiety is common."},
          src \in VerifierSources, score \in VerifierScores,
          a \in VerifierAnalyses, q \in ShortTextQueries, llm \in LLMChecks :
            VerifyProcess(text, src, score, a, q, llm)
    \/ BatchFilter

ShortTextSpec == Init /\ [][ShortTextNext]_vars

\* ===================== agents/orchestrator.py: the verification stage
\* bounds of the verification stage
MaxBatches == 1     \* _batch_verify calls in one behaviour
MaxRetrieved == 12  \* items one retrieval result may hold

\* program constants of the verification stage
PerItemFactor == 800     \* orchestrator.py:319 (score * 0.8, in millionths)
BatchFactor == 700       \* orchestrator.py:296 (score * 0.7, in millionths)
BatchTimeoutKeep == 2    \* orchestrator.py:296 (results[:2])

BatchComplexities == {"simple", "moderate", "complex"}

\* the score every item of a retrieval result carries, in thousandths: a
\* similarity below 1, or a raw keyword-search score above 1
BatchScores == {900, 1500}

\* retrieval_results.data
RetrievedItems(n, score) == [i \in 1..n |-> [id |-> i, score |-> score]]

\* how the verification of an item ends: the verifier answers within the
\* 3 s (a confidence, or the rejection of a short text), the 3 s deadline
\* expires, or neither has happened when the batch deadline expires ("late")
ItemOutcomes ==
    {"accept", "use_with_caution", "reject_decent", "reject_low", "rejection",
     "item_timeout", "late"}

\* the confidence the verifier computed, by outcome
OutcomeConfidence ==
    [accept |-> 750000, use_with_caution |-> 550000, reject_decent |-> 375000,
     reject_low |-> 250000]

\* the outcomes of the items of a batch, repeating a pattern
OutcomePatterns ==
    {<<o>> : o \in ItemOutcomes}
    \cup {<<"accept", "reject_low", "item_timeout">>,
          <<"item_timeout", "accept", "late">>,
          <<"reject_decent", "rejection", "use_with_caution">>}

OutcomesOf(pattern, n) ==
    [i \in 1..n |-> pattern[((i - 1) % Len(pattern)) + 1]]

\* the response of _verify_with_timeout when its 3 s deadline expires: the
\* item with recommendation, final_confidence and verification_notes added
\* (the item has no verification_method and no confidence)
TimedOutResponse(item) ==
    AgentResponse(TRUE,
        VerifiedData("", TRUE, item.score * PerItemFactor, "use_with_caution",
                     0),
        [timed_out |-> TRUE], "", 600000)

\* _verify_with_timeout for an item whose verification ends in time
VerifyWithTimeout(item, outcome) ==
    IF outcome = "item_timeout" THEN TimedOutResponse(item)
    ELSE IF outcome = "rejection" THEN CreateRejection
    ELSE VerifiedResponse([outcome |-> outcome], OutcomeConfidence[outcome])

\* the filter loop of _batch_verify: each successful result's data gets the
\* verification time; it is appended unless its recommendation is reject
\* with final_confidence (0 when absent) at most 0.3
ValidBatchResults(items, outcomes) ==
    LET data == [i \in 1..Len(items) |->
                    FilteredData(VerifyWithTimeout(items[i], outcomes[i]).data)]
        entry == [i \in 1..Len(items) |->
                    [item |-> items[i].id, data |-> data[i],
                     timed_out |-> outcomes[i] = "item_timeout"]]
    IN  SelectIdx(entry, {i \in 1..Len(items) :
                            /\ VerifyWithTimeout(items[i], outcomes[i]).success
                            /\ data[i].recommendation # "reject"}, 1)

\* the handler of the batch deadline: the first two items, each with
\* final_confidence = score * 0.7 added and nothing else
BatchTimeoutResults(items) ==
    [i \in 1..Min(BatchTimeoutKeep, Len(items)) |->
        [item |-> items[i].id,
         data |-> VerifiedData("", TRUE, items[i].score * BatchFactor,
                               "absent", 0),
         timed_out |-> TRUE]]

\* process from the end of retrieval to the gather of _batch_verify:
\* results_to_verify = retrieval_results.data[:max_to_verify]; an empty list
\* returns [] at once
BatchStart(n, score, complexity, pattern) ==
    /\ batch.pc \in {"idle", "done"}
    /\ batch.batches < MaxBatches
    /\ LET retrieved == RetrievedItems(n, score)
           to_verify == Take(retrieved, MaxToVerify(complexity))
       IN  batch' = [batch EXCEPT
                !.pc = IF to_verify = <<>> THEN "done" ELSE "gathering",
                !.batches = @ + 1,
                !.complexity = complexity,
                !.retrieved = retrieved,
                !.to_verify = to_verify,
                !.outcomes = OutcomesOf(pattern, Len(to_verify)),
                !.passed = <<>>,
                !.via = IF to_verify = <<>> THEN "empty" ELSE "none"]
    /\ UNCHANGED <<now, ticks, pipeline_vars, search, graph, verifier, evict, journal>>

\* the gather completes within the batch deadline: the filter loop
BatchGather ==
    /\ batch.pc = "gathering"
    /\ \A i \in 1..Len(batch.outcomes) : batch.outcomes[i] # "late"
    /\ batch' = [batch EXCEPT
            !.pc = "done", !.via = "filter",
            !.passed = ValidBatchResults(batch.to_verify, batch.outcomes)]
    /\ UNCHANGED <<now, ticks, pipeline_vars, search, graph, verifier, evict, journal>>

\* the batch deadline expires while an item is still being verified
BatchDeadline ==
    /\ batch.pc = "gathering"
    /\ \E i \in 1..Len(batch.outcomes) : batch.outcomes[i] = "late"
    /\ batch' = [batch EXCEPT
            !.pc = "done", !.via = "batch_timeout",
            !.passed = BatchTimeoutResults(batch.to_verify)]
    /\ UNCHANGED <<now, ticks, pipeline_vars, search, graph, verifier, evict, journal>>

BatchNext ==
    \/ \E n \in 0..MaxRetrieved, score \in BatchScores,
          complexity \in BatchComplexities, pattern \in OutcomePatterns :
            BatchStart(n, score, complexity, pattern)
    \/ BatchGather
    \/ BatchDeadline

BatchSpec == Init /\ [][BatchNext]_vars

\* ======================= core/memory.py: the calls made on the memory
\* bounds of the memory component
MaxAppends == 45    \* add_message calls of a session, one exchange after another
MaxAdds == 3        \* single add_message calls with a free content
MaxFills == 1       \* runs of plain exchanges
MaxGets == 2        \* get_history calls

\* program constants of the memory component
LastSummaries == 2  \* memory.py:149 (summaries[-2:])

\* what the generation capability may answer to a summarization request of
\* a long conversation
JournalSummaryOutcomes ==
    LLMSummaryOutcomes \cup {LLMText("The user asked about sleep and got advice.")}

UsableSummaries == {llm \in JournalSummaryOutcomes : ~llm.raises /\ llm.text # ""}

\* sep.join(parts)
RECURSIVE Join(_, _)
Join(sep, parts) ==
    IF parts = <<>> THEN ""
    ELSE IF Len(parts) = 1 THEN parts[1]
    ELSE parts[1] \o sep \o Join(sep, Tail(parts))

\* the lines of the critical-context note: the name, then one line per
\* preference in insertion order
ContextText(ctx) ==
    (IF ctx.has_name THEN <<"User's name: " \o ctx.user_name>> ELSE <<>>)
    \o [i \in 1..Len(ctx.preferences) |->
            "User " \o ctx.preferences[i][1] \o ": " \o ctx.preferences[i][2]]

\* the two notes get_history inserts; `origin` holds metadata["type"]
SummaryNote(sums) ==
    Message("system",
        "Previous conversation summary:\n"
        \o Join("\n\n", [i \in 1..Min(LastSummaries, Len(sums)) |->
                sums[Len(sums) - Min(LastSummaries, Len(sums)) + i].summary]),
        "summary")

ContextNote(ctx) ==
    Message("system", "Important context:\n" \o Join("\n", ContextText(ctx)),
            "critical_context")

\* the log as get_history copies it: without the system messages unless
\* include_system
HistoryCopy(log, include_system) ==
    IF include_system THEN log
    ELSE SelectIdx(log, {i \in 1..Len(log) : log[i].role # "system"}, 1)

\* a get_history that inserts the critical-context note before the summary
\* note is inserted, so that the summaries come first
GetHistorySummariesFirst(mem, sid, include_system, include_summaries) ==
    IF ~HasSession(mem, sid) THEN <<>>
    ELSE (IF include_summaries /\ mem.summaries[sid] # <<>>
          THEN <<SummaryNote(mem.summaries[sid])>> ELSE <<>>)
         \o (IF ContextText(mem.critical_context[sid]) # <<>>
             THEN <<ContextNote(mem.critical_context[sid])>> ELSE <<>>)
         \o HistoryCopy(mem.conversations[sid], include_system)

\* get_history: the summary note is inserted at the front of the copy, then
\* the critical-context note at the front of that
GetHistory(mem, sid, include_system, include_summaries) ==
    IF ~HasSession(mem, sid) THEN <<>>
    ELSE (IF ContextText(mem.critical_context[sid]) # <<>>
          THEN <<ContextNote(mem.critical_context[sid])>> ELSE <<>>)
         \o (IF include_summaries /\ mem.summaries[sid] # <<>>
             THEN <<SummaryNote(mem.summaries[sid])>> ELSE <<>>)
         \o HistoryCopy(mem.conversations[sid], include_system)

\* a get_history that inserts its notes into the stored log instead of a copy
MemoryAfterGetInPlace(mem, sid) ==
    IF ~HasSession(mem, sid) THEN mem
    ELSE PutSession(mem, sid, GetHistory(mem, sid, TRUE, TRUE),
                    mem.summaries[sid], mem.critical_context[sid])

\* the stored state after get_history: it reads conversations, summaries and
\* critical_context and assigns to none of them (history is a list() copy)
MemoryAfterGet(mem, sid) == mem

\* the k-th message of a plain exchange: the user's query, then the reply
PlainRole(k) == IF k % 2 = 1 THEN "user" ELSE "assistant"
PlainContent(k) == IF k % 2 = 1 THEN "I feel sad" ELSE "You are not alone."

\* the journal after an add_message on sid that found the memory `before`:
\* how many messages the session was given so far, whether the count test
\* of add_message held (the log length after the append is a multiple of
\* 20), and whether the generation capability gave a usable summary
Added(op, sid, n, before, llm) ==
    [journal EXCEPT
        !.op = op, !.sid = sid,
        !.adds = IF op = "add" THEN @ + 1 ELSE @,
        !.appended = [@ EXCEPT ![sid] = @ + n],
        !.triggered =
            Len(DequeAppend(SessionLog(before, sid), Message("", "", ""),
                            2 * ConversationWindow)) % SummarizeEvery = 0,
        !.usable = llm \in UsableSummaries,
        !.before = before,
        !.returned = <<>>, !.earlier = <<>>, !.again = FALSE]

\* one add_message call
JournalAdd(sid, role, content, llm) ==
    /\ memory' = AddMessage(memory, sid, role, content, sid, <<llm, llm>>, MaxMemoryTokens, ConversationWindow).mem
    /\ journal' = Added("add", sid, 1, memory, llm)
    /\ UNCHANGED <<response_cache, now, ticks, starts, call, search, graph, verifier, evict, batch>>

\* the summary the generation capability gives during a run of exchanges:
\* a usable one, another one each time
FillSummary(sums) ==
    IF Len(sums) % 2 = 0 THEN LLMText("The user feels sad and was comforted.")
    ELSE LLMText("The user asked about sleep and got advice.")

\* how many messages a run of exchanges appends
FillLengths == {19, 34, 49}

\* the next add_message call of a run of plain exchanges on sid, after which
\* `left` calls of the run remain; `fills` counts the runs begun
FillOne(sid, left, fills) ==
    /\ memory' = AddMessage(memory, sid, PlainRole(journal.appended[sid] + 1), PlainContent(journal.appended[sid] + 1), sid, <<FillSummary(SessionSummaries(memory, sid)), FillSummary(SessionSummaries(memory, sid))>>, MaxMemoryTokens, ConversationWindow).mem
    /\ journal' = [Added("run", sid, 1, memory, FillSummary(<<>>)) EXCEPT !.left = left, !.fills = fills]
    /\ UNCHANGED <<response_cache, now, ticks, starts, call, search, graph, verifier, evict, batch>>

\* a run of n add_message calls on sid begins: its first call
JournalFill(sid, n) ==
    /\ journal.fills < MaxFills
    /\ journal.left = 0
    /\ FillOne(sid, n - 1, journal.fills + 1)

\* the run goes on: its next call
JournalFillOn ==
    /\ journal.left > 0
    /\ FillOne(journal.sid, journal.left - 1, journal.fills)

\* one get_history call as the program's callers make it
\* (include_system False, include_summaries True)
JournalGet(sid) ==
    /\ journal.gets < MaxGets
    /\ memory' = MemoryAfterGet(memory, sid)
    /\ journal' = [journal EXCEPT
            !.op = "get", !.sid = sid, !.gets = @ + 1,
            !.before = memory,
            !.returned = GetHistory(memory, sid, FALSE, TRUE),
            !.earlier = IF journal.op = "get" /\ journal.sid = sid
                        THEN journal.returned ELSE <<>>,
            !.again = journal.op = "get" /\ journal.sid = sid,
            !.triggered = FALSE, !.usable = FALSE]
    /\ UNCHANGED <<response_cache, now, ticks, starts, call, search, graph, verifier, evict, batch>>

\* the session the summarization chain runs on
SummarySession == "s1"

\* add_message calls of one session, one plain exchange after another, the
\* generation capability answering as it may
SummaryNext ==
    \E llm \in JournalSummaryOutcomes :
        /\ journal.appended[SummarySession] < MaxAppends
        /\ JournalAdd(SummarySession,
                      PlainRole(journal.appended[SummarySession] + 1),
                      PlainContent(journal.appended[SummarySession] + 1), llm)

SummarySpec == Init /\ [][SummaryNext]_vars

\* what the callers of add_message send: the user's texts, the reply
JournalMessages ==
    {<<"user", t>> : t \in {"I feel sad"} \cup FactTexts}
    \cup {<<"assistant", t>> : t \in Replies}

MemoryNext ==
    \/ \E sid \in Sessions, m \in JournalMessages, llm \in UsableSummaries :
        /\ journal.adds < MaxAdds
        /\ journal.left = 0
        /\ JournalAdd(sid, m[1], m[2], llm)
    \/ \E sid \in Sessions, n \in FillLengths : JournalFill(sid, n)
    \/ JournalFillOn
    \/ \E sid \in Sessions : journal.left = 0 /\ JournalGet(sid)

MemorySpec == Init /\ [][MemoryNext]_vars

\* ============ agents/orchestrator.py: sessions and calls that overlap
\* bounds of the session component
MaxClears == 1      \* clear_session calls in one behaviour

\* the response cache after the deletions of clear_session: every key that
\* contains the session id as a substring is deleted.  The keys are the
\* hexadecimal digests _get_cache_key returns.
ClearedCache(cache, session_id) ==
    SelectIdx(cache, {i \in 1..Len(cache) : ~Contains(cache[i].key, session_id)}, 1)

\* clear_session: clear_history of the memory, then the cache deletions.
\* The journal keeps the session, the memory the call found and how many
\* calls had started by then.
ClearSession(session_id) ==
    /\ journal.clears < MaxClears
    /\ memory' = ClearHistory(memory, session_id)
    /\ response_cache' = ClearedCache(response_cache, session_id)
    /\ journal' = [journal EXCEPT !.op = "clear", !.sid = session_id, !.clears = @ + 1, !.at = starts, !.before = memory]
    /\ UNCHANGED <<now, ticks, starts, call, search, graph, verifier, evict, batch>>

\* the slot a new call takes: the event loop runs several process calls at
\* once, each suspended at one of its awaits
FreeSlot == IF Free("c1") THEN "c1" ELSE "c2"

\* process calls that may overlap, every stage answering, and clear_session
\* between any two steps
SessionNext ==
    \/ \E q \in SessionQueries, s \in ColonSessions :
            ProcessStart(FreeSlot, "any", q, s, NoPref)
    \/ \E c \in Slots :
            \E an \in AnalysesOf[call[c].query] :
                ClassifyReturns(c, FALSE, FALSE, an)
    \/ \E c \in Slots, n \in 0..MaxItems : RetrieveReturns(c, "ok", n)
    \/ \E c \in Slots, outs \in [1..MaxItems -> {"accept"}] : VerifyReturns(c, outs)
    \/ \E c \in Slots, r \in Replies : SynthReturns(c, "ok", r)
    \/ \E s \in ColonSessions : ClearSession(s)

SessionSpec == Init /\ [][SessionNext]_vars

\* ---- core/memory.py: add_message under a token budget that is reached
\* bounds of the trimming component
MaxTrimAdds == 22      \* add_message calls in one behaviour
TrimTokens == 100      \* max_tokens the memory is constructed with
TrimWindow == 10       \* window_size the memory is constructed with

\* the session the calls are made on
TrimSession == "s1"

\* what the generation capability answers to a summarization request
TrimSummaryOutcomes ==
    {LLMRaises, LLMText("The user feels sad and was comforted.")}

\* auxiliary: the ordinal of an append, kept in the message in place of the
\* timestamp of the stored dict
StampOf == [k \in 1..MaxTrimAdds |-> IntToStr(k)] @@ <<>>

\* the k-th message of the session: the user's query, then a reply, which is
\* the short one or the crisis response (87 words)
TrimContents(k) ==
    IF k % 2 = 1 THEN {"I feel sad"} ELSE {"You are not alone.", CrisisResponse}

\* one add_message call on a memory constructed with max_tokens TrimTokens
\* and window_size TrimWindow
TrimAdd(content, llm) ==
    /\ journal.adds < MaxTrimAdds
    /\ memory' = AddMessage(memory, TrimSession, PlainRole(journal.adds + 1), content, StampOf[journal.adds + 1], <<llm, llm>>, TrimTokens, TrimWindow).mem
    /\ journal' = [journal EXCEPT
            !.op = "add", !.sid = TrimSession, !.adds = @ + 1,
            !.appended = [@ EXCEPT ![TrimSession] = @ + 1],
            !.usable = ~llm.raises,
            !.before = memory]
    /\ UNCHANGED <<response_cache, now, ticks, starts, call, search, graph, verifier, evict, batch>>

TrimNext ==
    \E content \in TrimContents(journal.adds + 1), llm \in TrimSummaryOutcomes :
        TrimAdd(content, llm)

TrimSpec == Init /\ [][TrimNext]_vars

\* ------------------------------------------------------------------ claims
Done(c) == call[c].pc = "done"

Waiting(c) == call[c].pc \in {"classify", "retrieve", "verify", "synth"}

Triple(c) == <<call[c].query, call[c].session_id, call[c].pref>>

\* C1: every call of the orchestrator's process that has returned has
\* returned an AgentResponse, whatever failed on the way, and a call answered
\* by the top-level handler returned success=false with confidence 0.
C1_ProcessAlwaysReturnsResponse ==
    \A c \in Calls :
        (Done(c) /\ call[c].entry # "chat") =>
            /\ call[c].result # NoResponse
            /\ call[c].result.success \in BOOLEAN
            /\ (call[c].via = "error" =>
                    /\ ~call[c].result.success
                    /\ call[c].result.confidence = 0)

\* a call whose add_message raised (the one-group pattern "i live in") and
\* was answered by the top-level handler
C1_HandlerAnswered ==
    \E c \in Calls :
        /\ Done(c) /\ call[c].via = "error"
        /\ call[c].query = "i live in paris"
        /\ ~call[c].result.success
        /\ call[c].result.metadata.error_type = "IndexError"

\* C2: a call whose query contains a crisis keyword never awaits retrieval,
\* verification or synthesis once it is classified, whatever query type the
\* classifier assigned: its classification reported urgency critical.
C2_CrisisKeywordAlwaysCritical ==
    \A c \in Calls :
        (HasCrisisKeyword(call[c].query) /\ call[c].urgency # "unknown") =>
            /\ call[c].urgency = "critical"
            /\ call[c].pc \notin {"retrieve", "verify", "synth"}
            /\ call[c].stages \cap {"retrieve", "verify", "synth"} = {}

\* "What is suicide?" classified factual by the try block of the classifier:
\* no crisis check ran, urgency is none and the call awaits retrieval
C2_KeywordQueryRetrieves ==
    \E c \in Calls :
        /\ call[c].query = "What is suicide?"
        /\ call[c].pc = "retrieve"
        /\ call[c].analysis.query_type = "factual"
        /\ call[c].analysis.urgency_level = "none"

\* C3: a call whose classification reported urgency critical has returned
\* having awaited no stage but classification, with the fixed crisis response
\* at confidence 1.0, and an assistant message holding that response is the
\* last message of a log of the conversation memory.
C3_CriticalTakesCrisisBranch ==
    \A c \in Calls :
        call[c].urgency = "critical" =>
            /\ Done(c)
            /\ call[c].stages = {"classify"}
            /\ call[c].result.success
            /\ call[c].result.confidence = 100
            /\ call[c].result.data.response = CrisisResponse
            /\ call[c].result.data.confidence = 100
            /\ \E t \in DOMAIN memory.conversations :
                /\ memory.conversations[t] # <<>>
                /\ LET m == memory.conversations[t][Len(memory.conversations[t])]
                   IN  m.role = "assistant" /\ m.content = CrisisResponse

\* a call through chat that took the crisis branch
C3_CrisisReturned ==
    \E c \in Calls :
        /\ Done(c) /\ call[c].urgency = "critical" /\ call[c].via = "crisis"
        /\ call[c].entry = "any"
        /\ call[c].mapping.response = CrisisResponse

\* C4: every message in the log of a session was appended by a call that was
\* given that session id.
C4_SessionIsolation ==
    \A t \in DOMAIN memory.conversations :
        \A i \in 1..Len(memory.conversations[t]) :
            memory.conversations[t][i].origin = t

\* the crisis reply of a call on session s1, stored in the log "crisis"
C4_CrisisReplyInForeignLog ==
    /\ "crisis" \in DOMAIN memory.conversations
    /\ \E i \in 1..Len(memory.conversations["crisis"]) :
        /\ memory.conversations["crisis"][i].origin = "s1"
        /\ memory.conversations["crisis"][i].content = CrisisResponse
    /\ \A i \in 1..Len(memory.conversations["s1"]) :
        memory.conversations["s1"][i].role = "user"

\* C5: when the call before this one ran the pipeline for the same (query,
\* session id, model preference) and stored its response less than the time
\* to live ago, this call returns exactly the response that call returned.
C5_SecondCallReturnsStored ==
    \A c \in Calls :
        (/\ Done(c) /\ call[c].entry # "chat"
         /\ call[c].last.triple = Triple(c)
         /\ call[c].started - call[c].last.time < CacheTTL) =>
            call[c].result = call[c].last.response

\* a second call with the same triple, one second before the entry expires
C5_ServedJustBeforeExpiry ==
    \E c \in Calls :
        /\ Done(c) /\ call[c].last.triple = Triple(c)
        /\ call[c].started - call[c].last.time = CacheTTL - 1
        /\ call[c].result = call[c].last.response
        /\ call[c].result.success

\* C6: a call of process that starts when the cache holds an unexpired entry
\* under its key returns in that step, awaits no stage, appends nothing to
\* the memory and leaves memory and cache as they were.
C6_CacheHitShortCircuits ==
    [][\A c \in Calls :
        (/\ starts' = starts + 1
         /\ call'[c].entry # "chat"
         /\ CacheHit(response_cache,
                     GetCacheKey(call'[c].query, call'[c].session_id,
                                 call'[c].pref), now)) =>
            /\ call'[c].pc = "done"
            /\ call'[c].stages = {}
            /\ call'[c].appended = <<>>
            /\ ~call'[c].wrote_cache
            /\ memory' = memory
            /\ response_cache' = response_cache]_vars

\* a call served from the cache
C6_CallServedFromCache ==
    \E c \in Calls :
        /\ Done(c) /\ call[c].hit /\ call[c].via = "cache"
        /\ call[c].result.success
        /\ Len(response_cache) = 1

\* C7: a call with the empty query, through chat or on the orchestrator's
\* process, has returned with confidence 1.0 having awaited no stage and
\* appended no message to the memory.
C7_EmptyQueryReturnsAtOnce ==
    \A c \in Calls :
        (call[c].pc # "idle" /\ call[c].query = "") =>
            /\ Done(c)
            /\ call[c].stages = {}
            /\ call[c].appended = <<>>
            /\ IF call[c].entry = "chat"
               THEN call[c].mapping.confidence = 100
               ELSE call[c].result.confidence = 100

\* process("") on the orchestrator: the empty query is in the session's log
\* and the call awaits classification
C7_EmptyQueryClassified ==
    \E c \in Calls :
        /\ call[c].query = "" /\ call[c].entry = "process"
        /\ call[c].pc = "classify"
        /\ call[c].appended =
                <<[sid |-> call[c].session_id, role |-> "user", content |-> ""]>>

\* C8: the data mapping of every successful response (pipeline, cached or
\* crisis) has the keys response, confidence, sources, session_id and model.
C8_SuccessMappingHasFiveKeys ==
    \A c \in Calls :
        (Done(c) /\ call[c].entry # "chat" /\ call[c].result.success) =>
            {"response", "confidence", "sources", "session_id", "model"}
                \subseteq DOMAIN call[c].result.data

\* the mapping chat returns for a crisis response: no session_id
C8_CrisisMappingLacksSessionId ==
    \E c \in Calls :
        /\ Done(c) /\ call[c].via = "crisis" /\ call[c].entry = "any"
        /\ call[c].result.success
        /\ DOMAIN call[c].mapping =
                {"response", "confidence", "sources", "crisis_detected", "model"}

\* C9: the step in which a stage (classification, retrieval, synthesis)
\* answers success=false is the step in which process returns that response:
\* no later stage is awaited, no assistant message is appended, memory and
\* cache stay as they were.
C9_FailedStageReturnsAtOnce ==
    [][\A c \in Calls :
        (call[c].failed_stage = "none" /\ call'[c].failed_stage # "none") =>
            /\ call'[c].pc = "done"
            /\ ~call'[c].result.success
            /\ call'[c].result \in {CallFailed("Exception"),
                                    RetrievalResponse("failed", 0)}
            /\ call'[c].failed_stage = "classify" =>
                    call'[c].stages = {"classify"}
            /\ call'[c].failed_stage = "retrieve" =>
                    call'[c].stages = {"classify", "retrieve"}
            /\ \A i \in 1..Len(call'[c].appended) :
                    call'[c].appended[i].role = "user"
            /\ ~call'[c].wrote_cache
            /\ memory' = memory
            /\ response_cache' = response_cache]_vars

\* a call whose retrieval answered success=false from its except block
C9_RetrievalFailureReturned ==
    \E c \in Calls :
        /\ Done(c) /\ call[c].failed_stage = "retrieve"
        /\ call[c].result = RetrievalResponse("failed", 0)
        /\ call[c].stages = {"classify", "retrieve"}
        /\ response_cache = <<>>

\* C10: every call that awaits a stage eventually returns, even when the
\* capability it awaits never answers.
C10_EveryCallReturns ==
    \A c \in Calls : Waiting(c) ~> Done(c)

\* a call awaiting classification with no deadline to end the wait
C10_WaitWithoutDeadline ==
    \E c \in Calls :
        /\ call[c].pc = "classify"
        /\ ~ENABLED (VerifyTimeout(c) \/ \E n \in 0..MaxItems : RetrieveTimeout(c, n))

\* ------------------------------------------------ claims on the retrieval
\* the retrieval in hand went through the fan-out (it was not answered from
\* the cache)
FannedOut == search.pc \in {"gather", "done"} /\ search.via # "cache"

\* C11: when the analysis has intent emotional_support and does not require
\* current information, the retrieval made for it queries the vector source
\* only.
C11_LightweightQueriesVectorOnly ==
    (/\ FannedOut
     /\ search.analysis.intent = "emotional_support"
     /\ ~search.analysis.requires_current_info)
    => \A i \in 1..Len(search.tasks) : search.tasks[i] = "vector"

\* the lightweight path returned an item of a source other than the vector
\* store
C11_Witness ==
    /\ search.pc = "done" /\ search.via = "gather"
    /\ search.path = "lightweight"
    /\ search.analysis.intent = "emotional_support"
    /\ ~search.analysis.requires_current_info
    /\ \E i \in 1..Len(search.result.data) :
            search.result.data[i].method = "bm25"

\* the strategy claimed for factual queries
FactualStrategy(strategy) ==
    /\ {strategy.methods[i] : i \in 1..Len(strategy.methods)} = {"web", "graph"}
    /\ strategy.weights = [web |-> 7, graph |-> 3]
    /\ strategy.top_k = 15

EverySourceFailed ==
    /\ search.tasks # <<>>
    /\ \A i \in 1..Len(search.tasks) : search.outcomes[i].kind # "items"

\* C13: when every selected source fails, the retrieval does not return an
\* empty list: the emergency search returns at least the placeholder.
C13_NeverEmptyWhenAllFail ==
    (/\ search.pc = "done"
     /\ \/ search.via = "emergency"
        \/ search.via = "gather" /\ EverySourceFailed)
    => search.result.data # <<>>

\* every source raised, and the retrieval answered success with no item
C13_Witness ==
    /\ search.pc = "done" /\ search.via = "gather"
    /\ Len(search.tasks) = 3
    /\ \A i \in 1..Len(search.tasks) : search.outcomes[i].kind = "raises"
    /\ search.result.success
    /\ search.result.data = <<>>
    /\ search.result.confidence = 20

\* the item task i returned passes the score filter
PassesFilter(i) ==
    /\ search.outcomes[i].kind = "items"
    /\ CombineResultsFast(TaskResult(search.tasks[i], search.outcomes[i], i),
            search.strategy.weights)[1].final_score > MinFinalScore

\* C14: in the fan-out, a source that raises or misses the deadline is
\* excluded, and the items of the sources that completed remain; for each of
\* vector, keyword, graph and web.
C14_CompletedSourcesRemain ==
    (search.pc = "done" /\ search.via = "gather")
    => \A i \in 1..Len(search.tasks) :
            IF search.outcomes[i].kind = "items"
            THEN PassesFilter(i)
                 => \E k \in 1..Len(search.result.data) :
                        search.result.data[k].task = i
            ELSE \A k \in 1..Len(search.result.data) :
                        search.result.data[k].task # i

\* the vector search did not answer, the keyword search returned an item
\* that passes the filter, and the retrieval returned nothing
C14_Witness ==
    /\ search.pc = "done" /\ search.via = "gather"
    /\ \E i, j \in 1..Len(search.tasks) :
        /\ search.tasks[i] = "vector" /\ search.outcomes[i].kind = "slow"
        /\ search.tasks[j] = "bm25" /\ PassesFilter(j)
    /\ search.result.data = <<>>

\* C15: no entry of the retrieval cache created while serving one session is
\* returned while serving another session.
C15_CacheEntriesStayInSession ==
    (search.pc = "done" /\ search.via = "cache")
    => search.entry_of = search.session

\* a retrieval for session s2 was answered with the entry stored for s1
C15_Witness ==
    /\ search.pc = "done" /\ search.via = "cache"
    /\ search.session = "s2" /\ search.entry_of = "s1"
    /\ search.result.data # <<>>
    /\ CacheGet(search.cache,
                SearchCacheKey(search.query, search.analysis)).triple = "s1"

\* ------------------------------------------------- claims on the eviction
\* the entries of the cache, as it was when _clean_cache began, that have
\* not expired
LiveBefore ==
    {i \in 1..Len(evict.before) :
        ~(evict.at - evict.before[i].time > EvictParams(evict.kind).ttl)}

\* of the entries `live`, those whose key is not among `kept`
EvictedOf(live, kept) == {i \in live : evict.before[i].key \notin kept}

\* above the ceiling the entries removed are half of the live ones and none
\* is newer than an entry that stays; otherwise no live entry is removed
OldestHalf(live, evicted, ceiling) ==
    IF Cardinality(live) > ceiling
    THEN /\ Cardinality(evicted) = Cardinality(live) \div 2
         /\ \A i \in evicted, j \in live \ evicted :
                evict.before[i].time <= evict.before[j].time
    ELSE evicted = {}

\* C16: once the live entries of a timestamped cache exceed its ceiling, the
\* oldest half by stored timestamp is removed and a later lookup of a
\* removed key is a miss; the response cache never holds more than 100
\* entries after a write.
C16_OldestHalfEvicted ==
    /\ evict.op = "store" =>
        /\ Len(evict.cache) <= EvictParams(evict.kind).ceiling
        /\ OldestHalf(LiveBefore, EvictedOf(LiveBefore, Keys(evict.cache)),
                      EvictParams(evict.kind).ceiling)
    /\ (evict.op = "lookup" /\ evict.looked \in evict.gone) => ~evict.hit
    /\ evict.kind = "response" => Len(evict.cache) <= MaxCacheEntries

\* the response cache went from 101 entries to 51, and a key of the removed
\* half was looked up and missed
C16_Witness ==
    /\ evict.kind = "response"
    /\ Len(evict.before) = MaxCacheEntries + 1
    /\ Cardinality(LiveBefore) = MaxCacheEntries + 1
    /\ Len(evict.cache) = MaxCacheEntries + 1 - EvictCount
    /\ evict.op = "lookup" /\ evict.looked \in evict.gone /\ ~evict.hit

\* ---------------------------------------------------- claims on the graph
\* the neighbors an expansion lists
Listed(expansion) ==
    {expansion.neighbors[j].node : j \in 1..Len(expansion.neighbors)}

\* the expansion lacks a node that an edge of the graph leads to
Stale(expansion) ==
    \E i \in 1..Len(graph.edges) :
        /\ graph.edges[i].s = expansion.node
        /\ graph.edges[i].o \notin Listed(expansion)

\* C17: after add_triple(s, p, o) no cached neighbor expansion of s or of o
\* is reused: the neighbor cache holds none, and a later search that expands
\* a node sees every node an edge leads to from it.
C17_NeighborExpansionsFresh ==
    /\ graph.op = "add" =>
        \A i \in 1..Len(graph.neighbor_cache) :
            graph.neighbor_cache[i].node \notin {graph.s, graph.o}
    /\ (graph.op = "search" /\ graph.via = "computed") =>
        \A k \in 1..Len(graph.used) : ~Stale(graph.used[k])

\* a search computed its result from a cached expansion of `anxiety` that
\* lacks a node added since, and the result has no relation to that node
C17_Witness ==
    /\ graph.op = "search" /\ graph.via = "computed" /\ graph.hop = 1
    /\ Len(graph.results) < graph.limit
    /\ \E k \in 1..Len(graph.used) :
        /\ graph.used[k].cached
        /\ graph.used[k].node = "anxiety"
        /\ Stale(graph.used[k])
        /\ \E i \in 1..Len(graph.edges) :
            /\ graph.edges[i].s = "anxiety"
            /\ graph.edges[i].o \notin Listed(graph.used[k])
            /\ \A r \in 1..Len(graph.results) :
                {graph.results[r].entity, graph.results[r].related_entity}
                    # {"anxiety", graph.edges[i].o}

\* C18: after add_triple(s, p, o) every search-cache entry whose search
\* resolved to s or to o, by exact, word or substring match, is gone.
C18_ResolvedSearchesInvalidated ==
    graph.op = "add" =>
        \A i \in 1..Len(graph.search_cache) :
            graph.search_cache[i].triple \cap {graph.s, graph.o} = {}

\* the search for "anx", which resolved to `anxiety`, was answered from the
\* cache although an edge from `anxiety` was added after the entry was made
C18_Witness ==
    /\ graph.op = "search" /\ graph.via = "cache" /\ graph.term = "anx"
    /\ "anxiety" \in graph.matched
    /\ Len(graph.results) < graph.limit
    /\ \E i \in 1..Len(graph.edges) :
        /\ graph.edges[i].s = "anxiety"
        /\ \A r \in 1..Len(graph.results) :
            {graph.results[r].entity, graph.results[r].related_entity}
                # {"anxiety", graph.edges[i].o}

\* C19: every relation search_entity returns for hop_distance d has a path of
\* at most d + 1 nodes and a distance of at most d.
C19_RelationsWithinHops ==
    graph.op = "search" =>
        \A r \in 1..Len(graph.results) :
            /\ graph.results[r].path_length <= graph.hop + 1
            /\ graph.results[r].distance <= graph.hop
            /\ graph.results[r].hop_distance = graph.hop

\* a search with hop_distance 2 returned a relation two edges away, by a
\* path of three nodes
C19_Witness ==
    /\ graph.op = "search" /\ graph.via = "computed" /\ graph.hop = 2
    /\ \E r \in 1..Len(graph.results) :
        /\ graph.results[r].distance = 2
        /\ graph.results[r].path_length = 3

\* the confidence a verification result states: final_confidence, or the
\* confidence of a rejection, which carries no final_confidence
StatedConfidence(data) ==
    IF data.has_final THEN data.final_confidence ELSE data.confidence

\* C20: every result VerifierAgent.process returns has a final_confidence in
\* [0, 0.95] and the recommendation its thresholds give: reject below 0.4,
\* use_with_caution below 0.7, accept otherwise.
C20_RecommendationFollowsConfidence ==
    verifier.pc = "returned" =>
        /\ 0 <= StatedConfidence(verifier.result.data)
        /\ StatedConfidence(verifier.result.data) <= MaxConfidence
        /\ verifier.result.data.recommendation =
                Recommend(StatedConfidence(verifier.result.data))

\* process returned, from verification_cache, a result of confidence between
\* 0.3 and 0.4 that recommends use_with_caution
C20_Witness ==
    /\ verifier.pc = "returned"
    /\ verifier.via = "cache"
    /\ verifier.result.data.has_final
    /\ verifier.result.data.final_confidence > IncludeAbove
    /\ verifier.result.data.final_confidence < RejectBelow
    /\ verifier.result.data.recommendation = "use_with_caution"

\* C21: for a text that is empty or shorter than 50 characters, process
\* returns recommendation reject with confidence 0.0 and does not invoke the
\* generation capability.
C21_ShortTextRejected ==
    (verifier.pc = "returned" /\ Len(verifier.text) < MinTextLength) =>
        /\ verifier.result.data.recommendation = "reject"
        /\ verifier.result.data.confidence = 0
        /\ verifier.result.confidence = 0
        /\ ~verifier.asked

\* process answered a text of 49 characters from verification_cache with the
\* result computed for another, longer text
C21_Witness ==
    /\ verifier.pc = "returned"
    /\ Len(verifier.text) < MinTextLength
    /\ verifier.via = "cache"
    /\ verifier.result.data.recommendation # "reject"
    /\ verifier.result.data.confidence > 0

\* the items of the batch that are in the list passed to synthesis
PassedItems == {batch.passed[k].item : k \in 1..Len(batch.passed)}

\* C22: the items handed to the verifier in one process call are at most 5
\* for complexity simple, 8 for moderate and 10 otherwise, and they are the
\* first items of the retrieval result.
C22_VerificationBreadthBounded ==
    batch.pc # "idle" =>
        /\ batch.complexity = "simple" => Len(batch.to_verify) <= 5
        /\ batch.complexity = "moderate" => Len(batch.to_verify) <= 8
        /\ Len(batch.to_verify) <= 10
        /\ Len(batch.to_verify) <= Len(batch.retrieved)
        /\ \A i \in 1..Len(batch.to_verify) :
                batch.to_verify[i] = batch.retrieved[i]

\* a retrieval result of 12 items, of which 5 were handed to the verifier
C22_Witness ==
    /\ batch.pc = "done"
    /\ batch.complexity = "simple"
    /\ Len(batch.retrieved) = MaxRetrieved
    /\ Len(batch.to_verify) = 5
    /\ batch.via = "filter"

\* C23: an item whose verification timed out (its own deadline or the
\* batch deadline) is in the list passed to synthesis with a confidence
\* below its score, and an item is left out only when its result is a reject
\* of low confidence.
C23_TimedOutItemsIncluded ==
    batch.pc = "done" =>
        \A i \in 1..Len(batch.to_verify) :
            /\ (batch.outcomes[i] = "item_timeout" \/ batch.via = "batch_timeout")
                    => \E k \in 1..Len(batch.passed) :
                        /\ batch.passed[k].item = batch.to_verify[i].id
                        /\ batch.passed[k].data.final_confidence
                                < 1000 * batch.to_verify[i].score
            /\ batch.to_verify[i].id \notin PassedItems
                    => batch.outcomes[i] \in {"reject_low", "rejection"}

\* the batch deadline expired with three items or more being verified: the
\* third is not in the list passed to synthesis
C23_Witness ==
    /\ batch.pc = "done"
    /\ batch.via = "batch_timeout"
    /\ Len(batch.to_verify) >= 3
    /\ batch.outcomes[3] = "late"
    /\ batch.to_verify[3].id \notin PassedItems

\* C30: every item passed to synthesis has the recommendation accept or
\* use_with_caution and a final_confidence in [0, 0.95], on the normal path,
\* on an item timeout and on the batch timeout.
C30_PassedItemsWellFormed ==
    batch.pc = "done" =>
        \A k \in 1..Len(batch.passed) :
            /\ batch.passed[k].data.recommendation
                    \in {"accept", "use_with_caution"}
            /\ batch.passed[k].data.has_final
            /\ batch.passed[k].data.final_confidence >= 0
            /\ batch.passed[k].data.final_confidence <= MaxConfidence

\* the batch deadline expired and the items passed on have no recommendation
C30_Witness ==
    /\ batch.pc = "done"
    /\ batch.via = "batch_timeout"
    /\ batch.passed # <<>>
    /\ \A k \in 1..Len(batch.passed) :
            batch.passed[k].data.recommendation = "absent"

\* C24: counting all messages appended to a session, summarization is
\* triggered by the message count at exactly every 20th appended message;
\* when the generation capability then returns a usable summary, one summary
\* covering all but the 5 most recent messages is added and those older
\* messages leave the rolling log.
C24_SummaryAtEveryTwentieth ==
    journal.op = "add" =>
        LET sid == journal.sid
            old == Append(SessionLog(journal.before, sid), Message("", "", ""))
            was == SessionSummaries(journal.before, sid)
            log == SessionLog(memory, sid)
            sums == SessionSummaries(memory, sid)
        IN  /\ journal.triggered <=> journal.appended[sid] % SummarizeEvery = 0
            /\ (journal.appended[sid] % SummarizeEvery = 0 /\ journal.usable) =>
                /\ Len(sums) = Len(was) + 1
                /\ sums[Len(sums)].message_count = Len(old) - KeepRecent
                /\ Len(log) = KeepRecent

\* the 35th message of a session whose 20th was summarized: the log holds
\* 20 messages again, the summarization runs and adds a second summary
C24_Witness ==
    /\ journal.op = "add"
    /\ journal.appended[journal.sid] = 35
    /\ journal.triggered /\ journal.usable
    /\ Len(SessionSummaries(memory, journal.sid)) = 2
    /\ Len(SessionLog(memory, journal.sid)) = KeepRecent

\* the 40th message of such a session: no summarization although the
\* generation capability would give a usable summary
C24_NoneAtFortieth ==
    /\ journal.op = "add"
    /\ journal.appended[journal.sid] = 40
    /\ ~journal.triggered /\ journal.usable
    /\ Len(SessionLog(memory, journal.sid)) = 2 * KeepRecent

\* the critical facts and the summaries get_history found for its session
FactsExist ==
    \/ SessionContext(journal.before, journal.sid).has_name
    \/ SessionContext(journal.before, journal.sid).preferences # <<>>

SummariesExist == SessionSummaries(journal.before, journal.sid) # <<>>

\* how many notes stand before the messages of the log
NotesBefore == (IF FactsExist THEN 1 ELSE 0) + (IF SummariesExist THEN 1 ELSE 0)

\* C25: get_history returns, in this order, the critical-fact system note
\* (when facts exist), then one system note holding the most recent
\* summaries (when summaries exist), then the messages of the rolling log in
\* append order.
C25_HistoryOrder ==
    journal.op = "get" =>
        LET r == journal.returned
            ctx == SessionContext(journal.before, journal.sid)
            sums == SessionSummaries(journal.before, journal.sid)
            log == SessionLog(journal.before, journal.sid)
            at == IF FactsExist THEN 2 ELSE 1
        IN  /\ Len(r) = NotesBefore + Len(log)
            /\ FactsExist =>
                /\ r[1].role = "system" /\ r[1].origin = "critical_context"
                /\ ctx.has_name => Contains(r[1].content, ctx.user_name)
                /\ \A i \in 1..Len(ctx.preferences) :
                        Contains(r[1].content, ctx.preferences[i][2])
            /\ SummariesExist =>
                /\ r[at].role = "system" /\ r[at].origin = "summary"
                /\ Contains(r[at].content, sums[Len(sums)].summary)
                /\ Len(sums) >= 2 =>
                        Contains(r[at].content,
                                 sums[Len(sums) - 1].summary \o "\n\n"
                                 \o sums[Len(sums)].summary)
                /\ Len(sums) > 2 =>
                        ~Contains(r[at].content,
                                  sums[Len(sums) - 2].summary \o "\n\n"
                                  \o sums[Len(sums) - 1].summary)
            /\ \A i \in 1..Len(log) : r[NotesBefore + i] = log[i]

\* a get_history on a session with a name, a preference, three summaries
\* and a log: both notes, then the log
C25_Witness ==
    /\ journal.op = "get"
    /\ SessionContext(journal.before, journal.sid).has_name
    /\ SessionContext(journal.before, journal.sid).preferences # <<>>
    /\ Len(SessionSummaries(journal.before, journal.sid)) = 3
    /\ Len(journal.returned) = 2 + Len(SessionLog(journal.before, journal.sid))
    /\ Len(SessionLog(journal.before, journal.sid)) >= KeepRecent

C27_ClearSessionExact ==
    [][journal'.clears > journal.clears =>
        /\ \A i \in 1..Len(response_cache') :
                response_cache'[i].triple[2] # journal'.sid
        /\ \A i \in 1..Len(response_cache) :
                response_cache[i].triple[2] # journal'.sid
                    => /\ CacheHas(response_cache', response_cache[i].key)
                       /\ CacheGet(response_cache', response_cache[i].key)
                            = response_cache[i]]_vars

\* a call of session s stored its reply and its response, clear_session(s)
\* ran and cleared the memory of s, and the next call of s with the same
\* query was answered from the cache
C27_Witness ==
    /\ journal.op = "clear" /\ journal.at = 1 /\ starts = 2
    /\ Len(SessionLog(journal.before, journal.sid)) = 2
    /\ ~HasSession(memory, journal.sid)
    /\ \E c \in Slots :
        /\ call[c].pc = "done" /\ call[c].hit /\ call[c].via = "cache"
        /\ call[c].session_id = journal.sid
        /\ call[c].last.triple = Triple(c)
        /\ call[c].result.data.session_id = journal.sid

\* the log of the session of call c holds two user messages in a row
TwoUserMessagesInARow(c) ==
    \E i \in 1..(Len(SessionLog(memory, call[c].session_id)) - 1) :
        /\ SessionLog(memory, call[c].session_id)[i].role = "user"
        /\ SessionLog(memory, call[c].session_id)[i + 1].role = "user"
        /\ SessionLog(memory, call[c].session_id)[i].content = call[c].query
        /\ SessionLog(memory, call[c].session_id)[i + 1].content = call[c].query

\* C28: cache and memory updates are atomic with respect to other process
\* calls: two overlapping process calls with the same (query, session,
\* model preference) never both miss the cache, both run the pipeline and
\* both append their messages to the session's memory in an interleaved
\* order.
C28_NoOverlappingMisses ==
    \A c, d \in Slots :
        (c # d /\ Triple(c) = Triple(d)
         /\ ~call[c].hit /\ ~call[d].hit
         /\ Len(call[c].appended) > 0 /\ Len(call[d].appended) > 0)
            => ~TwoUserMessagesInARow(c)

\* two calls with the same triple both ran the whole pipeline and both
\* wrote the cache; the session's log is user, user, assistant, assistant
C28_Witness ==
    \E c, d \in Slots :
        /\ c # d /\ Triple(c) = Triple(d)
        /\ call[c].via = "pipeline" /\ call[d].via = "pipeline"
        /\ call[c].wrote_cache /\ call[d].wrote_cache
        /\ Len(SessionLog(memory, call[c].session_id)) = 4
        /\ SessionLog(memory, call[c].session_id)[1].role = "user"
        /\ SessionLog(memory, call[c].session_id)[2].role = "user"
        /\ SessionLog(memory, call[c].session_id)[3].role = "assistant"
        /\ SessionLog(memory, call[c].session_id)[4].role = "assistant"

\* C29: distinct (query, session id, model preference) triples never share
\* a response-cache entry: process returns a stored response only to a call
\* whose query text, session id and model preference all equal those of the
\* call that stored it, also for strings that contain ':'.
C29_CacheEntryPerTriple ==
    \A c \in Slots :
        (call[c].pc = "done" /\ call[c].hit)
            => /\ call[c].last.triple = Triple(c)
               /\ call[c].result.data.session_id = call[c].session_id

\* the call ("I feel sad", "s1:s2") is answered with the response stored by
\* the call ("I feel sad:s1", "s2"), or the other way round
C29_Witness ==
    \E c \in Slots :
        /\ call[c].pc = "done" /\ call[c].hit
        /\ call[c].last.triple # Triple(c)
        /\ call[c].last.triple[1] # call[c].query
        /\ call[c].result.data.session_id # call[c].session_id
        /\ call[c].result = call[c].last.response

\* C31: the data of every result of VerifierAgent.process consists of all
\* fields of the input item unchanged plus final_confidence,
\* relevance_score, quality_score and recommendation, for accepted and
\* rejected items and for a result served from verification_cache for a
\* different item with the cached text prefix and query.
C31_ResultCarriesItem ==
    verifier.pc = "returned" =>
        /\ verifier.result.data.item = verifier.item
        /\ verifier.result.data.has_final
        /\ verifier.result.data.recommendation
                \in {"accept", "use_with_caution", "reject"}

\* process answered an item from verification_cache with the fields of
\* another item (same text and query, another source), and it answered a
\* short text with a rejection that holds no field of the item
C31_Witness ==
    /\ verifier.pc = "returned"
    /\ \/ /\ verifier.via = "cache"
          /\ verifier.result.data.item.text = verifier.item.text
          /\ verifier.result.data.item.source # verifier.item.source
       \/ /\ verifier.via = "rejected"
          /\ verifier.result.data.item = NoItem
          /\ ~verifier.result.data.has_final
          /\ verifier.item.text # ""

\* C32: every result VerifierAgent.process returns, the rejection of an
\* empty or too short text included, is stored in verification_cache under
\* the key (first 100 characters of the text, first 50 of the query), so an
\* identical later call is answered from the cache.
C32_EveryResultCached ==
    verifier.pc = "returned" =>
        /\ CacheHas(verifier.cache, VerificationKeyOf[verifier.text][verifier.query])
        /\ CacheGet(verifier.cache, VerificationKeyOf[verifier.text][verifier.query]).response = verifier.result

\* the second of two calls with a short text: rejected again, nothing in
\* the cache under its key
C32_Witness ==
    /\ verifier.pc = "returned"
    /\ verifier.calls = 2
    /\ verifier.via = "rejected"
    /\ Len(verifier.text) < MinTextLength
    /\ ~CacheHas(verifier.cache, VerificationKeyOf[verifier.text][verifier.query])

\* the response the verifier stored under the key of its last call, as it
\* was when it was stored
StoredAsComputed == CacheGet(verifier.cache, verifier.ref).triple

\* C33: a hit of verification_cache returns the recommendation, the
\* final_confidence and the item fields that process computed when the entry
\* was stored: nothing a caller does with a returned result changes what
\* later hits return.
C33_HitReturnsWhatWasStored ==
    (verifier.pc = "returned" /\ verifier.via = "cache") =>
        /\ verifier.result.data.recommendation = StoredAsComputed.data.recommendation
        /\ verifier.result.data.final_confidence = StoredAsComputed.data.final_confidence
        /\ verifier.result.data.item = StoredAsComputed.data.item
        /\ verifier.result.data.verification_time = StoredAsComputed.data.verification_time

\* a hit returns use_with_caution for an entry that was stored as reject:
\* the filter loop of _batch_verify wrote into the stored response
C33_Witness ==
    /\ verifier.pc = "returned" /\ verifier.via = "cache"
    /\ StoredAsComputed.data.recommendation = "reject"
    /\ verifier.result.data.recommendation = "use_with_caution"
    /\ verifier.result.data.final_confidence = StoredAsComputed.data.final_confidence
    /\ verifier.result.data.verification_time

\* the age, at the call, of the search-cache entry a cache hit returned
ReturnedSearchAge ==
    graph.at - CacheGet(graph.search_cache,
                        GraphSearchKey[graph.term][graph.hop][graph.limit]).time

\* C34: neither a cached search result nor a cached neighbor expansion older
\* than the cache TTL is ever returned, and after a search the search cache
\* holds at most 100 and the neighbor cache at most 200 entries.
C34_GraphCachesBounded ==
    graph.op = "search" =>
        /\ graph.via = "cache" => ReturnedSearchAge <= GraphCacheTTL
        /\ \A k \in 1..Len(graph.used) :
            graph.used[k].cached =>
                graph.at - graph.used[k].stored <= GraphCacheTTL
        /\ Len(graph.search_cache) <= GraphCacheCeiling
        /\ Len(graph.neighbor_cache) <= NeighborCeiling

\* the search entry had expired and the result was computed again, from a
\* neighbor expansion cached longer ago than the TTL
C34_Witness ==
    /\ graph.op = "search" /\ graph.via = "computed" /\ graph.searches = 2
    /\ \E k \in 1..Len(graph.used) :
        /\ graph.used[k].cached
        /\ graph.at - graph.used[k].stored > GraphCacheTTL
        /\ graph.used[k].neighbors # <<>>
    /\ graph.results # <<>>

\* the unordered pair of endpoints of a returned relation
Endpoints(r) == {r.entity, r.related_entity}

\* C35: search_entity returns at most limit results, in non-increasing order
\* of relevance, and no two of them have the same unordered pair of endpoints.
C35_ResultsSortedDistinct ==
    graph.op = "search" =>
        /\ Len(graph.results) <= graph.limit
        /\ \A i, j \in 1..Len(graph.results) :
            i < j =>
                /\ graph.results[i].relevance >= graph.results[j].relevance
                /\ Endpoints(graph.results[i]) # Endpoints(graph.results[j])

\* `anxiety` was expanded before `anxiety disorder`, each has an edge to the
\* other and `fear` is one edge from the second: the pair of the two was met
\* from both ends and returned once, and of the three relations found the
\* one met second, from `anxiety` to `fear` at distance 2, is the one cut
C35_Witness ==
    /\ graph.op = "search" /\ graph.via = "computed" /\ graph.hop = 2
    /\ graph.top = <<"anxiety", "anxiety disorder">>
    /\ \E i, j, k \in 1..Len(graph.edges) :
        /\ graph.edges[i].s = "anxiety" /\ graph.edges[i].o = "anxiety disorder"
        /\ graph.edges[j].s = "anxiety disorder" /\ graph.edges[j].o = "anxiety"
        /\ graph.edges[k].s = "anxiety disorder" /\ graph.edges[k].o = "fear"
    /\ Len(graph.results) = graph.limit
    /\ Endpoints(graph.results[1]) = {"anxiety", "anxiety disorder"}
    /\ Endpoints(graph.results[2]) = {"anxiety disorder", "fear"}
    /\ graph.results[2].distance = 1

\* the nodes whose name is the term, case-insensitively
ExactNodes ==
    {n \in SeqSet(graph.nodes) : GraphLowerOf[n] = GraphLowerOf[graph.term]}

\* C36: when the search term equals an existing node case-insensitively, that
\* node is among the at most 3 matched nodes search_entity expands, however
\* many other nodes match the term by word overlap or substring.
C36_ExactNodeExpanded ==
    (graph.op = "search" /\ graph.via = "computed") =>
        /\ Len(graph.top) <= MaxTopNodes
        /\ ExactNodes \subseteq SeqSet(graph.top)

\* four nodes matched the term `anxiety`; the three expanded are the other
\* three, and no relation of the node `anxiety` itself is returned
C36_Witness ==
    /\ graph.op = "search" /\ graph.via = "computed"
    /\ graph.term = "anxiety"
    /\ "anxiety" \in SeqSet(graph.nodes)
    /\ Cardinality(graph.matched) = 4
    /\ Len(graph.top) = MaxTopNodes
    /\ "anxiety" \notin SeqSet(graph.top)
    /\ \E i \in 1..Len(graph.edges) : graph.edges[i].s = "anxiety"
    /\ \A r \in 1..Len(graph.results) : graph.results[r].entity # "anxiety"

\* final_results of the last retrieval
FinalResults == search.result.data

\* C37: the item sequence retrieve returns is in non-increasing order of
\* final score, has at most top_k items and none whose final score is at or
\* below the floor of 0.25, whether or not reranking was applied.
C37_FinalResultsRanked ==
    (search.pc = "done" /\ search.via = "gather") =>
        /\ Len(FinalResults) <= search.strategy.top_k
        /\ \A i \in 1..Len(FinalResults) : FinalResults[i].final_score > MinFinalScore
        /\ \A i, j \in 1..Len(FinalResults) :
            i < j => FinalResults[i].final_score >= FinalResults[j].final_score

\* nine web items were reranked: one of the first five got 0.27 and is
\* returned before the sixth, whose final score is still the 0.30 it had
C37_Witness ==
    /\ search.pc = "done" /\ search.via = "gather"
    /\ search.strategy.query_type = "practical"
    /\ search.outcomes.applied
    /\ search.outcomes.rerank.kind = "scores"
    /\ \E i \in 1..Len(FinalResults) :
        /\ i < Len(FinalResults)
        /\ FinalResults[i].final_score = 270
        /\ FinalResults[i + 1].final_score = 300

\* the rolling log of the trimmed session, now and before the last call
TrimLog == SessionLog(memory, TrimSession)
TrimLogBefore == SessionLog(journal.before, TrimSession)

\* s is what is left of t after removing messages from its front
IsSuffix(s, t) ==
    /\ Len(s) <= Len(t)
    /\ s = SubSeq(t, Len(t) - Len(s) + 1, Len(t))

\* C38: after add_message returns, the estimated token count of the rolling
\* log (1.3 x word count) is at most max_tokens, or the log holds at most 5
\* messages; the messages removed are the oldest.
C38_TokenBudgetKept ==
    journal.op = "add" =>
        /\ \/ ~TokensExceed(TrimLog, 10 * TrimTokens)
           \/ Len(TrimLog) <= KeepRecent
        /\ \E m \in SeqSet(TrimLog) :
            IsSuffix(TrimLog, Append(TrimLogBefore, m))

\* a log of six short messages was within the budget; the crisis response
\* was appended, one message was removed, and the six left exceed the budget
C38_Witness ==
    /\ journal.op = "add"
    /\ Len(TrimLogBefore) = 6
    /\ ~TokensExceed(TrimLogBefore, 10 * TrimTokens)
    /\ Len(TrimLog) = 6
    /\ TrimLog[6].content = CrisisResponse
    /\ TrimLog[1] = TrimLogBefore[2]
    /\ TokensExceed(TrimLog, 10 * TrimTokens)

\* C39: after n add_message calls on a session, the last min(5, n) appended
\* messages are the tail of the rolling log, in append order: neither the
\* size cap, trimming nor summarization removes one of them.
C39_LastFiveKept ==
    journal.op = "add" =>
        LET n == journal.appended[TrimSession]
            m == Min(KeepRecent, n)
        IN  /\ Len(TrimLog) >= m
            /\ \A i \in 1..m :
                TrimLog[Len(TrimLog) - m + i].origin = StampOf[n - m + i]

\* no summary could be made of the 20 messages of the log, and the 22nd
\* append pushed the oldest out at the size cap: the newest is the tail
C39_Witness ==
    /\ journal.op = "add"
    /\ journal.appended[TrimSession] = MaxTrimAdds
    /\ Len(TrimLogBefore) = 2 * TrimWindow
    /\ Len(TrimLog) = 2 * TrimWindow
    /\ TrimLog[1] = TrimLogBefore[2]
    /\ TrimLog[Len(TrimLog)].origin = StampOf[MaxTrimAdds]


====
